---- MODULE Spec2Model ----
(***************************************************************************)
(* Document-automation service: the passport and G-28 extraction           *)
(* orchestrators, the beneficiary merge and the in-memory session store    *)
(* of app.py, with the asyncio request handlers that update it.            *)
(*                                                                         *)
(* Conventions.  An Optional[...] value is None (the empty tuple) or       *)
(* Some(v) (a one-element tuple).  Confidence scores are kept in           *)
(* thousandths (0.95 is 950), which is exact for every score the code can  *)
(* produce.  An ISO date "YYYY-MM-DD" is the record [y, m, d]; a date      *)
(* string that could not be parsed is [raw |-> s].                         *)
(***************************************************************************)
EXTENDS Integers, Sequences, FiniteSets, TLC

None == <<>>

Some(v) == <<v>>

\* Python truthiness of an Optional[str]: None and "" are falsy.
Truthy(o) == o # None /\ o[1] # ""

\* Python truthiness of an Optional[BaseModel]: only None is falsy.
IsSet(o) == o # None

(***************************************************************************)
(* models.py                                                               *)
(***************************************************************************)
PassportData ==
  [ last_name |-> None, first_name |-> None, middle_name |-> None,
    passport_number |-> None, country_of_issue |-> None, nationality |-> None,
    date_of_birth |-> None, place_of_birth |-> None, sex |-> None,
    date_of_issue |-> None, date_of_expiration |-> None,
    extraction_method |-> None, confidence_score |-> None ]

AttorneyData ==
  [ last_name |-> None, first_name |-> None, middle_name |-> None,
    street_address |-> None, apt_ste_flr |-> None, city |-> None,
    state |-> None, zip_code |-> None, country |-> None,
    daytime_phone |-> None, mobile_phone |-> None, email |-> None,
    licensing_authority |-> None, bar_number |-> None, law_firm_name |-> None,
    online_account_number |-> None,
    extraction_method |-> None, confidence_score |-> None ]

ExtractedFormData ==
  [ passport |-> None, attorney |-> None, raw_text |-> <<>>, errors |-> <<>> ]

\* The values pydantic accepts for PassportData.sex.
SexLiteral == {"M", "F", "X"}

\* The data fields of a passport record (everything but the provenance pair).
PassportDataFields ==
  { "last_name", "first_name", "middle_name", "passport_number",
    "country_of_issue", "nationality", "date_of_birth", "place_of_birth",
    "sex", "date_of_issue", "date_of_expiration" }

NameFields == {"last_name", "first_name", "middle_name"}

US_STATES ==
    "alabama" :> "AL" @@ "al" :> "AL" @@ "alaska" :> "AK" @@ "ak" :> "AK" @@
    "arizona" :> "AZ" @@ "az" :> "AZ" @@ "arkansas" :> "AR" @@ "ar" :> "AR" @@
    "california" :> "CA" @@ "ca" :> "CA" @@ "colorado" :> "CO" @@ "co" :> "CO" @@
    "connecticut" :> "CT" @@ "ct" :> "CT" @@ "delaware" :> "DE" @@ "de" :> "DE" @@
    "district of columbia" :> "DC" @@ "dc" :> "DC" @@ "florida" :> "FL" @@ "fl" :> "FL" @@
    "georgia" :> "GA" @@ "ga" :> "GA" @@ "hawaii" :> "HI" @@ "hi" :> "HI" @@
    "idaho" :> "ID" @@ "id" :> "ID" @@ "illinois" :> "IL" @@ "il" :> "IL" @@
    "indiana" :> "IN" @@ "in" :> "IN" @@ "iowa" :> "IA" @@ "ia" :> "IA" @@
    "kansas" :> "KS" @@ "ks" :> "KS" @@ "kentucky" :> "KY" @@ "ky" :> "KY" @@
    "louisiana" :> "LA" @@ "la" :> "LA" @@ "maine" :> "ME" @@ "me" :> "ME" @@
    "maryland" :> "MD" @@ "md" :> "MD" @@ "massachusetts" :> "MA" @@ "ma" :> "MA" @@
    "michigan" :> "MI" @@ "mi" :> "MI" @@ "minnesota" :> "MN" @@ "mn" :> "MN" @@
    "mississippi" :> "MS" @@ "ms" :> "MS" @@ "missouri" :> "MO" @@ "mo" :> "MO" @@
    "montana" :> "MT" @@ "mt" :> "MT" @@ "nebraska" :> "NE" @@ "ne" :> "NE" @@
    "nevada" :> "NV" @@ "nv" :> "NV" @@ "new hampshire" :> "NH" @@ "nh" :> "NH" @@
    "new jersey" :> "NJ" @@ "nj" :> "NJ" @@ "new mexico" :> "NM" @@ "nm" :> "NM" @@
    "new york" :> "NY" @@ "ny" :> "NY" @@ "north carolina" :> "NC" @@ "nc" :> "NC" @@
    "north dakota" :> "ND" @@ "nd" :> "ND" @@ "ohio" :> "OH" @@ "oh" :> "OH" @@
    "oklahoma" :> "OK" @@ "ok" :> "OK" @@ "oregon" :> "OR" @@ "or" :> "OR" @@
    "pennsylvania" :> "PA" @@ "pa" :> "PA" @@ "rhode island" :> "RI" @@ "ri" :> "RI" @@
    "south carolina" :> "SC" @@ "sc" :> "SC" @@ "south dakota" :> "SD" @@ "sd" :> "SD" @@
    "tennessee" :> "TN" @@ "tn" :> "TN" @@ "texas" :> "TX" @@ "tx" :> "TX" @@
    "utah" :> "UT" @@ "ut" :> "UT" @@ "vermont" :> "VT" @@ "vt" :> "VT" @@
    "virginia" :> "VA" @@ "va" :> "VA" @@ "washington" :> "WA" @@ "wa" :> "WA" @@
    "west virginia" :> "WV" @@ "wv" :> "WV" @@ "wisconsin" :> "WI" @@ "wi" :> "WI" @@
    "wyoming" :> "WY" @@ "wy" :> "WY"

(***************************************************************************)
(* String conversions.  Strings are atomic in TLC, so str.upper, str.lower,*)
(* str.title, str.strip and str.replace are tabulated on the strings the   *)
(* model feeds them; a string that is not a key is a fixed point of the    *)
(* conversion (every other string of the model is one).                    *)
(***************************************************************************)
Lookup(table, key) == IF key \in DOMAIN table THEN table[key] ELSE key

UpperTable ==
    "n/a" :> "N/A" @@ "ca" :> "CA" @@ "California" :> "CALIFORNIA" @@
    "x1234567" :> "X1234567" @@ "f" :> "F" @@ "Ontario" :> "ONTARIO"

upper(s) == Lookup(UpperTable, s)

LowerTable ==
    "CA" :> "ca" @@ "California" :> "california" @@ "ZZ" :> "zz" @@
    "Ontario" :> "ontario" @@ "Jane@Example.com" :> "jane@example.com" @@
    "Name" :> "name" @@ "Smith" :> "smith" @@ "JANE" :> "jane" @@
    "Jane" :> "jane" @@ "Q" :> "q" @@ "N/A" :> "n/a"

lower(s) == Lookup(LowerTable, s)

TitleTable ==
    "SILVA" :> "Silva" @@ "DE SILVA" :> "De Silva" @@ "ANA" :> "Ana" @@
    "LUZ" :> "Luz" @@ "LUZ MAR" :> "Luz Mar" @@ "JANE" :> "Jane" @@
    "smith" :> "Smith" @@ "name" :> "Name" @@ "q" :> "Q" @@
    "state bar of california" :> "State Bar Of California"

title(s) == Lookup(TitleTable, s)

StripTable ==
    " Smith " :> "Smith" @@ "  " :> "" @@ " n/a " :> "n/a" @@
    " Maria" :> "Maria" @@ " 555-0100 " :> "555-0100"

strip(s) == Lookup(StripTable, s)

\* s.replace('<', ' ').strip() on an MRZ name token
FillerToSpaceTable ==
    "DE<SILVA" :> "DE SILVA" @@ "ANA<LUZ" :> "ANA LUZ" @@
    "ANA<LUZ<MAR" :> "ANA LUZ MAR" @@ "<<<" :> ""

FillerToSpace(s) == Lookup(FillerToSpaceTable, s)

\* s.replace('<', '') on an MRZ document number
StripFillerTable ==
    "X1234567<" :> "X1234567" @@ "<<<<<<<<<" :> ""

StripFiller(s) == Lookup(StripFillerTable, s)

\* str.split() on whitespace
SplitTable ==
    "" :> <<>> @@ "ANA" :> <<"ANA">> @@ "ANA LUZ" :> <<"ANA", "LUZ">> @@
    "ANA LUZ MAR" :> <<"ANA", "LUZ", "MAR">> @@
    "Ana Silva" :> <<"Ana", "Silva">> @@ "Ana Luz Silva" :> <<"Ana", "Luz", "Silva">> @@
    "Cher" :> <<"Cher">>

split(s) == SplitTable[s]

\* ' '.join(words)
JoinTable ==
    <<>> :> "" @@ <<"LUZ">> :> "LUZ" @@ <<"LUZ", "MAR">> :> "LUZ MAR" @@
    <<"Luz">> :> "Luz"

join(words) == JoinTable[words]

(***************************************************************************)
(* extractors/llm_passport_extractor.py                                    *)
(***************************************************************************)
LLM_CONFIDENCE == 950

\* pydantic's validation of PassportData(...): sex must be one of the literal
\* values; a failure raises ValidationError.
ValidPassportData(rec) == rec.sex = None \/ rec.sex[1] \in SexLiteral

\* _parse_response: the reply's JSON object into a PassportData; None on
\* malformed JSON.  A ValidationError is not caught here (see below).
_parse_response(reply) ==
  IF reply.outcome = "bad_json" THEN None ELSE Some(reply.json)

\* Variant: extract without lines 85-86, the record is returned unstamped.
LLMPassportExtractor_extract_Bare(reply) ==
  IF reply.outcome \in {"no_client", "no_image", "api_error"} THEN None
  ELSE LET result == _parse_response(reply)
       IN  IF result = None THEN None
           ELSE IF ~ValidPassportData(result[1]) THEN None
           ELSE result

\* LLMPassportExtractor.extract: None without a client, without an image,
\* on an API error or on any exception of the parse; otherwise the parsed
\* record stamped LLM_OPENAI / 0.95.
LLMPassportExtractor_extract(reply) ==
  IF reply.outcome \in {"no_client", "no_image", "api_error"} THEN None
  ELSE LET result == _parse_response(reply)
       IN  IF result = None THEN None
           ELSE IF ~ValidPassportData(result[1]) THEN None
           ELSE Some([result[1] EXCEPT !.extraction_method = Some("LLM_OPENAI"),
                                       !.confidence_score = Some(LLM_CONFIDENCE)])

\* is_llm_available(): whether OPENAI_API_KEY is configured.
is_llm_available(reply) == reply.outcome # "no_api_key"

(***************************************************************************)
(* extractors/passport_extractor.py                                        *)
(***************************************************************************)
COUNTRY_CODES ==
    "USA" :> "United States" @@ "GBR" :> "United Kingdom" @@ "CAN" :> "Canada" @@
    "AUS" :> "Australia" @@ "DEU" :> "Germany" @@ "FRA" :> "France" @@
    "ITA" :> "Italy" @@ "ESP" :> "Spain" @@ "JPN" :> "Japan" @@
    "CHN" :> "China" @@ "IND" :> "India" @@ "BRA" :> "Brazil" @@
    "MEX" :> "Mexico" @@ "KOR" :> "South Korea" @@ "RUS" :> "Russia" @@
    "NLD" :> "Netherlands" @@ "BEL" :> "Belgium" @@ "CHE" :> "Switzerland" @@
    "AUT" :> "Austria" @@ "SWE" :> "Sweden" @@ "NOR" :> "Norway" @@
    "DNK" :> "Denmark" @@ "FIN" :> "Finland" @@ "POL" :> "Poland" @@
    "PRT" :> "Portugal" @@ "GRC" :> "Greece" @@ "IRL" :> "Ireland" @@
    "NZL" :> "New Zealand" @@ "SGP" :> "Singapore" @@ "HKG" :> "Hong Kong" @@
    "TWN" :> "Taiwan" @@ "THA" :> "Thailand" @@ "VNM" :> "Vietnam" @@
    "PHL" :> "Philippines" @@ "IDN" :> "Indonesia" @@ "MYS" :> "Malaysia" @@
    "ARG" :> "Argentina" @@ "CHL" :> "Chile" @@ "COL" :> "Colombia" @@
    "PER" :> "Peru" @@ "ZAF" :> "South Africa" @@ "EGY" :> "Egypt" @@
    "NGA" :> "Nigeria" @@ "KEN" :> "Kenya" @@ "ISR" :> "Israel" @@
    "ARE" :> "United Arab Emirates" @@ "SAU" :> "Saudi Arabia" @@ "TUR" :> "Turkey" @@
    "PAK" :> "Pakistan" @@ "BGD" :> "Bangladesh"

MRZ_CONFIDENCE == 950

OCR_CONFIDENCE == 700

FAILED_CONFIDENCE == 0

\* _extract_via_ocr: the least text length a page must have
MIN_OCR_TEXT == 50

\* _find_mrz_lines: bounds on the cleaned length of a candidate, and the
\* width every candidate is normalised to
MRZ_MIN_LEN == 42

MRZ_MAX_LEN == 46

MRZ_WIDTH == 44

MrzLetters ==
  { "A","B","C","D","E","F","G","H","I","J","K","L","M",
    "N","O","P","Q","R","S","T","U","V","W","X","Y","Z" }

MrzDigits == { "0","1","2","3","4","5","6","7","8","9" }

\* the character class [A-Z0-9<]
MrzAlphabet == MrzLetters \cup MrzDigits \cup {"<"}

\* the glyphs U+00AB and U+2039, which OCR produces for the filler "<"
LookAlikeFillers == {"laquo", "lsaquo"}

UpperChar(c) ==
  CASE c = "p" -> "P" [] c = "a" -> "A" [] c = "x" -> "X" [] OTHER -> c

Rep(c, n) == [i \in 1..n |-> c]

\* line.replace(' ', '').replace(look-alike, '<') and re.sub('[^A-Z0-9<]', '')
\* on the upper-cased line
CleanLine(line) ==
  LET replaced == [i \in 1..Len(line) |->
                     IF UpperChar(line[i]) \in LookAlikeFillers THEN "<" ELSE UpperChar(line[i])]
      Kept(c)  == c \in MrzAlphabet
  IN  SelectSeq(replaced, Kept)

\* the pad-or-truncate of a candidate line to 44 characters
NormalizeLine(cleaned) ==
  IF Len(cleaned) < MRZ_WIDTH
    THEN cleaned \o Rep("<", MRZ_WIDTH - Len(cleaned))
  ELSE IF Len(cleaned) > MRZ_WIDTH THEN SubSeq(cleaned, 1, MRZ_WIDTH)
  ELSE cleaned

\* Variant: the test of the pattern alone, without the 42..46 bound.
IsCandidate_PatternOnly(cleaned) == Len(cleaned) >= 40 /\ Len(cleaned) <= 50

IsCandidate(cleaned) ==
  /\ Len(cleaned) >= 40 /\ Len(cleaned) <= 50
  /\ MRZ_MIN_LEN <= Len(cleaned) /\ Len(cleaned) <= MRZ_MAX_LEN

RECURSIVE MrzCandidates(_)
MrzCandidates(lines) ==
  IF lines = <<>> THEN <<>>
  ELSE LET cleaned == CleanLine(Head(lines))
       IN  (IF IsCandidate(cleaned) THEN <<NormalizeLine(cleaned)>> ELSE <<>>)
             \o MrzCandidates(Tail(lines))

\* _find_mrz_lines: the first two candidates, or None
_find_mrz_lines(text) ==
  LET candidates == MrzCandidates(text)
  IN  IF Len(candidates) >= 2 THEN Some(<<candidates[1], candidates[2]>>) ELSE None

DigitValue(c) ==
  CASE c = "0" -> 0 [] c = "1" -> 1 [] c = "2" -> 2 [] c = "3" -> 3
    [] c = "4" -> 4 [] c = "5" -> 5 [] c = "6" -> 6 [] c = "7" -> 7
    [] c = "8" -> 8 [] c = "9" -> 9

\* int() of a two-character slice succeeds exactly on two digits here (the
\* MRZ alphabet has no sign or blank)
IsInt2(s) == Len(s) = 2 /\ s[1] \in MrzDigits /\ s[2] \in MrzDigits

Int2(s) == 10 * DigitValue(s[1]) + DigitValue(s[2])

\* Variant: the pivot test with >= in place of >.
_parse_mrz_date_Inclusive(date_str, now_year) ==
  IF Len(date_str) < 6 THEN None
  ELSE LET ys == SubSeq(date_str, 1, 2)
           ms == SubSeq(date_str, 3, 4)
           ds == SubSeq(date_str, 5, 6)
       IN  IF ~(IsInt2(ys) /\ IsInt2(ms) /\ IsInt2(ds)) THEN None
           ELSE LET yy == Int2(ys)
                    current_year == now_year % 100
                    year == IF yy >= current_year + 10 THEN 1900 + yy ELSE 2000 + yy
                IN  Some([y |-> year, m |-> Int2(ms), d |-> Int2(ds)])

\* _parse_mrz_date: YYMMDD to ISO, None when short or not numeric
_parse_mrz_date(date_str, now_year) ==
  IF Len(date_str) < 6 THEN None
  ELSE LET ys == SubSeq(date_str, 1, 2)
           ms == SubSeq(date_str, 3, 4)
           ds == SubSeq(date_str, 5, 6)
       IN  IF ~(IsInt2(ys) /\ IsInt2(ms) /\ IsInt2(ds)) THEN None
           ELSE LET yy == Int2(ys)
                    current_year == now_year % 100
                    year == IF yy > current_year + 10 THEN 1900 + yy ELSE 2000 + yy
                IN  Some([y |-> year, m |-> Int2(ms), d |-> Int2(ds)])

\* the record _parse_mrz_fields passes to PassportData(...)
MrzRecord(fields, now_year) ==
  LET surname     == FillerToSpace(fields.surname)
      given_names == FillerToSpace(fields.name)
      name_parts  == split(given_names)
      first_name  == IF name_parts # <<>> THEN Some(name_parts[1]) ELSE None
      middle_name == IF Len(name_parts) > 1 THEN Some(join(Tail(name_parts))) ELSE None
  IN  [ PassportData EXCEPT
          !.last_name = IF surname # "" THEN Some(title(surname)) ELSE None,
          !.first_name = IF Truthy(first_name) THEN Some(title(first_name[1])) ELSE None,
          !.middle_name = IF Truthy(middle_name) THEN Some(title(middle_name[1])) ELSE None,
          !.passport_number = Some(StripFiller(fields.document_number)),
          !.country_of_issue = Some(Lookup(COUNTRY_CODES, fields.country)),
          !.nationality = Some(Lookup(COUNTRY_CODES, fields.nationality)),
          !.date_of_birth = _parse_mrz_date(fields.birth_date, now_year),
          !.sex = IF upper(fields.sex) # "" THEN Some(upper(fields.sex)) ELSE None,
          !.date_of_expiration = _parse_mrz_date(fields.expiry_date, now_year) ]

\* _parse_mrz_fields: [raised, value]; PassportData(...) raises
\* ValidationError on a sex outside the literal
_parse_mrz_fields(fields, now_year) ==
  LET rec == MrzRecord(fields, now_year)
  IN  IF ValidPassportData(rec) THEN [raised |-> FALSE, value |-> Some(rec)]
      ELSE [raised |-> TRUE, value |-> None]

\* _get_images: the pages of the document, [] when loading fails
_get_images(doc) == IF doc.load = "error" THEN <<>> ELSE doc.pages

\* _ocr_image: the whitelist OCR text of a page (a list of lines), or None
\* when pytesseract is missing or raises
_ocr_image(env, page) == IF ~env.tesseract THEN None ELSE page.mrz_text

RECURSIVE _extract_mrz_Unchecked(_, _, _)
\* Variant: _extract_mrz without the test of checker.result.
_extract_mrz_Unchecked(env, images, now_year) ==
  IF ~env.mrz_lib THEN None
  ELSE IF images = <<>> THEN None
  ELSE LET img       == Head(images)
           text      == _ocr_image(env, img)
           mrz_lines == IF text = None THEN None ELSE _find_mrz_lines(text[1])
           parsed    == _parse_mrz_fields(img.td3.fields, now_year)
       IN  IF text = None \/ text[1] = <<>> THEN _extract_mrz_Unchecked(env, Tail(images), now_year)
           ELSE IF mrz_lines # None /\ img.td3.outcome # "raise" /\ ~parsed.raised
             THEN parsed.value
           ELSE _extract_mrz_Unchecked(env, Tail(images), now_year)

RECURSIVE _extract_mrz(_, _, _)
\* _extract_mrz: the record of the first page whose located line pair the
\* TD3 checker accepts and whose fields parse; an exception of the checker
\* or of the parse skips the page
_extract_mrz(env, images, now_year) ==
  IF ~env.mrz_lib THEN None
  ELSE IF images = <<>> THEN None
  ELSE LET img       == Head(images)
           text      == _ocr_image(env, img)
           mrz_lines == IF text = None THEN None ELSE _find_mrz_lines(text[1])
           parsed    == _parse_mrz_fields(img.td3.fields, now_year)
       IN  IF text = None \/ text[1] = <<>> THEN _extract_mrz(env, Tail(images), now_year)
           ELSE IF mrz_lines # None /\ img.td3.outcome = "valid" /\ ~parsed.raised
             THEN parsed.value
           ELSE _extract_mrz(env, Tail(images), now_year)

\* _normalize_date: dateparser's ISO date, or the input when it parses nothing
_normalize_date(date) == IF date.parsed # None THEN date.parsed[1] ELSE [raw |-> date.raw]

\* _extract_from_text (passport): the first number pattern that matches, the
\* first PERSON entity of two or more words, the labelled birth date and sex
PassportFromText(found) ==
  LET parts == IF found.nlp /\ found.persons # <<>> THEN split(found.persons[1]) ELSE <<>>
      sex   == IF found.sex = None THEN None ELSE Some(upper(found.sex[1]))
  IN  [ PassportData EXCEPT
          !.passport_number =
             IF found.number # None THEN Some(upper(found.number[1])) ELSE None,
          !.first_name = IF Len(parts) >= 2 THEN Some(parts[1]) ELSE None,
          !.last_name = IF Len(parts) >= 2 THEN Some(parts[Len(parts)]) ELSE None,
          !.middle_name =
             IF Len(parts) > 2 THEN Some(join(SubSeq(parts, 2, Len(parts) - 1))) ELSE None,
          !.date_of_birth =
             IF found.dob # None THEN Some(_normalize_date(found.dob[1])) ELSE None,
          !.sex =
             IF sex = None THEN None
             ELSE IF sex[1] \in {"M", "MALE"} THEN Some("M")
             ELSE IF sex[1] \in {"F", "FEMALE"} THEN Some("F")
             ELSE Some("X") ]

RECURSIVE _extract_via_ocr(_, _)
\* _extract_via_ocr: the pattern record of the first page whose text has at
\* least 50 characters and gives a passport number or a last name; a page
\* that raises is skipped
_extract_via_ocr(env, images) ==
  IF ~env.tesseract THEN None
  ELSE IF images = <<>> THEN None
  ELSE LET img  == Head(images)
           data == PassportFromText(img.ocr.found)
       IN  IF /\ img.ocr.outcome = "text"
              /\ img.ocr.length > 0 /\ img.ocr.length >= MIN_OCR_TEXT
              /\ (Truthy(data.passport_number) \/ Truthy(data.last_name))
             THEN Some(data)
           ELSE _extract_via_ocr(env, Tail(images))

\* Variant: _get_images without its try, a file that cannot be loaded raises.
_get_images_raises_NoTry(doc) == ~doc.env.pil \/ doc.load = "error"

\* _get_images raises only at `from PIL import Image`, which is outside its
\* try; every loader error is caught and gives []
_get_images_raises(doc) == ~doc.env.pil

\* lines 52-61 of extract: the LLM record when the LLM is enabled, available,
\* raises nothing and returns a passport number or a last name, else None
TryLLM(doc, use_llm) ==
  IF ~use_llm THEN None
  ELSE IF doc.llm.outcome = "import_error" THEN None
  ELSE IF ~is_llm_available(doc.llm) THEN None
  ELSE LET result == LLMPassportExtractor_extract(doc.llm)
       IN  IF result # None /\ (Truthy(result[1].passport_number) \/ Truthy(result[1].last_name))
             THEN result
           ELSE None

\* Variant: the fallback record without its provenance pair.
FailedPassport_Unstamped == PassportData

FailedPassport ==
  [PassportData EXCEPT !.extraction_method = Some("FAILED"),
                       !.confidence_score = Some(FAILED_CONFIDENCE)]

\* Variant: extract with the OCR patterns consulted before the MRZ.
PassportExtractor_extract_OcrFirst(doc, use_llm) ==
  LET llm      == TryLLM(doc, use_llm)
      images   == _get_images(doc)
      mrz_data == _extract_mrz(doc.env, images, doc.now_year)
      ocr_data == _extract_via_ocr(doc.env, images)
      tryllm   == IF use_llm THEN <<"LLM">> ELSE <<>>
  IN  IF llm # None THEN [data |-> llm[1], tried |-> tryllm]
      ELSE IF ocr_data # None
        THEN [data  |-> [ocr_data[1] EXCEPT !.extraction_method = Some("OCR+NLP"),
                                            !.confidence_score = Some(OCR_CONFIDENCE)],
              tried |-> tryllm \o <<"OCR">>]
      ELSE IF mrz_data # None /\ Truthy(mrz_data[1].passport_number)
        THEN [data  |-> [mrz_data[1] EXCEPT !.extraction_method = Some("MRZ"),
                                            !.confidence_score = Some(MRZ_CONFIDENCE)],
              tried |-> tryllm \o <<"OCR", "MRZ">>]
      ELSE [data |-> FailedPassport, tried |-> tryllm \o <<"OCR", "MRZ">>]

\* PassportExtractor.extract, with the strategies it ran in `tried`
PassportExtractor_extract(doc, use_llm) ==
  LET llm      == TryLLM(doc, use_llm)
      images   == _get_images(doc)
      mrz_data == _extract_mrz(doc.env, images, doc.now_year)
      ocr_data == _extract_via_ocr(doc.env, images)
      tryllm   == IF use_llm THEN <<"LLM">> ELSE <<>>
  IN  IF llm # None THEN [data |-> llm[1], tried |-> tryllm]
      ELSE IF mrz_data # None /\ Truthy(mrz_data[1].passport_number)
        THEN [data  |-> [mrz_data[1] EXCEPT !.extraction_method = Some("MRZ"),
                                            !.confidence_score = Some(MRZ_CONFIDENCE)],
              tried |-> tryllm \o <<"MRZ">>]
      ELSE IF ocr_data # None
        THEN [data  |-> [ocr_data[1] EXCEPT !.extraction_method = Some("OCR+NLP"),
                                            !.confidence_score = Some(OCR_CONFIDENCE)],
              tried |-> tryllm \o <<"MRZ", "OCR">>]
      ELSE [data |-> FailedPassport, tried |-> tryllm \o <<"MRZ", "OCR">>]

\* whether PassportExtractor.extract raises: the LLM block, _extract_mrz and
\* _extract_via_ocr catch every exception, _get_images is called bare
PassportExtractor_raises(doc, use_llm) ==
  TryLLM(doc, use_llm) = None /\ _get_images_raises(doc)

(***************************************************************************)
(* extractors/g28_extractor.py                                             *)
(***************************************************************************)
BENEFICIARY_CONFIDENCE == 500

\* the acceptance threshold of the form-field strategy, 0.3
CONFIDENCE_THRESHOLD == 300

\* Variant: a score of the required fields alone.
_calculate_confidence_RequiredOnly(data) ==
  Cardinality({f \in {"last_name", "first_name"} : Truthy(data[f])}) * 250

\* _calculate_confidence: min(1.0, 0.5 * required/2 + 0.5 * important/4)
_calculate_confidence(data) ==
  LET required  == {"last_name", "first_name"}
      important == {"street_address", "city", "state", "email"}
      req_score == Cardinality({f \in required : Truthy(data[f])}) * 250
      imp_score == Cardinality({f \in important : Truthy(data[f])}) * 125
  IN  IF req_score + imp_score > 1000 THEN 1000 ELSE req_score + imp_score

\* the attorney attribute -> form field name table of _extract_pdf_form_fields
mappings ==
  << <<"last_name", "Pt1Line2a_FamilyName[0]">>,
     <<"first_name", "Pt1Line2b_GivenName[0]">>,
     <<"middle_name", "Pt1Line2c_MiddleName[0]">>,
     <<"street_address", "Line3a_StreetNumber[0]">>,
     <<"apt_ste_flr", "Line3b_AptSteFlrNumber[0]">>,
     <<"city", "Line3c_CityOrTown[0]">>,
     <<"state", "Line3d_State[0]">>,
     <<"zip_code", "Line3e_ZipCode[0]">>,
     <<"country", "Line3h_Country[0]">>,
     <<"daytime_phone", "Line4_DaytimeTelephoneNumber[0]">>,
     <<"mobile_phone", "Line7_MobileTelephoneNumber[0]">>,
     <<"email", "Line6_EMail[0]">>,
     <<"bar_number", "Pt2Line1b_BarNumber[0]">>,
     <<"licensing_authority", "Pt2Line1a_LicensingAuthority[0]">>,
     <<"law_firm_name", "Pt2Line1d_NameofFirmOrOrganization[0]">> >>

beneficiary_mappings ==
  << <<"last_name", "Pt3Line5a_FamilyName[0]">>,
     <<"first_name", "Pt3Line5b_GivenName[0]">>,
     <<"middle_name", "Pt3Line5c_MiddleName[0]">> >>

\* name.lower() of a form field name
FieldNameLower ==
    "Pt1Line2a_FamilyName[0]" :> "pt1line2a_familyname[0]" @@
    "Pt1Line2b_GivenName[0]" :> "pt1line2b_givenname[0]" @@
    "Pt1Line2c_MiddleName[0]" :> "pt1line2c_middlename[0]" @@
    "Line3a_StreetNumber[0]" :> "line3a_streetnumber[0]" @@
    "Line3b_AptSteFlrNumber[0]" :> "line3b_aptsteflrnumber[0]" @@
    "Line3c_CityOrTown[0]" :> "line3c_cityortown[0]" @@
    "Line3d_State[0]" :> "line3d_state[0]" @@
    "Line3e_ZipCode[0]" :> "line3e_zipcode[0]" @@
    "Line3h_Country[0]" :> "line3h_country[0]" @@
    "Line4_DaytimeTelephoneNumber[0]" :> "line4_daytimetelephonenumber[0]" @@
    "Line7_MobileTelephoneNumber[0]" :> "line7_mobiletelephonenumber[0]" @@
    "Line6_EMail[0]" :> "line6_email[0]" @@
    "Pt2Line1b_BarNumber[0]" :> "pt2line1b_barnumber[0]" @@
    "Pt2Line1a_LicensingAuthority[0]" :> "pt2line1a_licensingauthority[0]" @@
    "Pt2Line1d_NameofFirmOrOrganization[0]" :> "pt2line1d_nameoffirmororganization[0]" @@
    "Pt3Line5a_FamilyName[0]" :> "pt3line5a_familyname[0]" @@
    "Pt3Line5b_GivenName[0]" :> "pt3line5b_givenname[0]" @@
    "Pt3Line5c_MiddleName[0]" :> "pt3line5c_middlename[0]"

RECURSIVE FormFields(_)
\* lines 49-54: the dict of every widget with a name and a value, under its
\* name and under its lower-cased name; a later widget overwrites
FormFields(widgets) ==
  IF widgets = <<>> THEN <<>>
  ELSE LET w    == widgets[Len(widgets)]
           prev == FormFields(SubSeq(widgets, 1, Len(widgets) - 1))
       IN  IF w.field_name # "" /\ w.field_value # ""
             THEN (Lookup(FieldNameLower, w.field_name) :> w.field_value)
                    @@ (w.field_name :> w.field_value) @@ prev
           ELSE prev

\* the test of lines 86 and 107
UsableValue(value) ==
  value # "" /\ strip(value) # "" /\ upper(strip(value)) # "N/A"

\* the value a mapping entry assigns: the first of name, name.lower() that is
\* a key with a usable value, stripped; None when there is none
MappedValue(form_fields, name) ==
  LET keys == <<name, Lookup(FieldNameLower, name)>>
      ok(k) == k \in DOMAIN form_fields /\ UsableValue(form_fields[k])
  IN  IF ok(keys[1]) THEN Some(strip(form_fields[keys[1]]))
      ELSE IF ok(keys[2]) THEN Some(strip(form_fields[keys[2]]))
      ELSE None

RECURSIVE ApplyMappings(_, _, _)
\* the setattr loops of lines 81-88 and 102-109
ApplyMappings(data, table, form_fields) ==
  IF table = <<>> THEN data
  ELSE LET v == MappedValue(form_fields, Head(table)[2])
       IN  ApplyMappings(IF v = None THEN data ELSE [data EXCEPT ![Head(table)[1]] = v],
                         Tail(table), form_fields)

\* "@" in s
ContainsAt(s) == s \in {"jane@example.com", "Jane@Example.com", "x@y.org"}

\* Variant: ingestion without the repair of lines 91-94.
RepairEmail_Skip(data) == data

\* lines 91-94: an email typed into the mobile phone field
RepairEmail(data) ==
  IF Truthy(data.mobile_phone) /\ ContainsAt(data.mobile_phone[1])
    THEN [data EXCEPT !.email = IF ~Truthy(data.email) THEN data.mobile_phone ELSE @,
                      !.mobile_phone = None]
  ELSE data

\* Variant: ingestion that leaves the record of line 117 without its score.
_extract_pdf_form_fields_Unscored(doc) ==
  LET form_fields == FormFields(doc.form.widgets)
      data        == RepairEmail(ApplyMappings(AttorneyData, mappings, form_fields))
      named       == ApplyMappings(PassportData, beneficiary_mappings, form_fields)
      beneficiary ==
        IF Truthy(named.last_name) \/ Truthy(named.first_name)
          THEN Some([named EXCEPT !.extraction_method = Some("G28_BENEFICIARY"),
                                  !.confidence_score = Some(BENEFICIARY_CONFIDENCE)])
        ELSE None
  IN  IF doc.form.outcome = "error" THEN [data |-> None, beneficiary |-> None]
      ELSE IF DOMAIN form_fields = {} THEN [data |-> None, beneficiary |-> None]
      ELSE [data |-> Some(data), beneficiary |-> beneficiary]

\* _extract_pdf_form_fields: [data, beneficiary], both None when the reader
\* raises or the document has no filled widget
_extract_pdf_form_fields(doc) ==
  LET form_fields == FormFields(doc.form.widgets)
      data        == RepairEmail(ApplyMappings(AttorneyData, mappings, form_fields))
      named       == ApplyMappings(PassportData, beneficiary_mappings, form_fields)
      beneficiary ==
        IF Truthy(named.last_name) \/ Truthy(named.first_name)
          THEN Some([named EXCEPT !.extraction_method = Some("G28_BENEFICIARY"),
                                  !.confidence_score = Some(BENEFICIARY_CONFIDENCE)])
        ELSE None
  IN  IF doc.form.outcome = "error" THEN [data |-> None, beneficiary |-> None]
      ELSE IF DOMAIN form_fields = {} THEN [data |-> None, beneficiary |-> None]
      ELSE [data |-> Some([data EXCEPT !.confidence_score = Some(_calculate_confidence(data))]),
            beneficiary |-> beneficiary]

\* state_str.upper()[:2]
Prefix2Table ==
    "ONTARIO" :> "ON" @@ "CALIFORNIA" :> "CA"

\* models.normalize_state
normalize_state(state_str) ==
  IF ~Truthy(state_str) THEN None
  ELSE LET key == strip(lower(state_str[1]))
       IN  IF key \in DOMAIN US_STATES THEN Some(US_STATES[key])
           ELSE Some(Lookup(Prefix2Table, upper(state_str[1])))

\* the empty match set of the pattern extractor
NoCaptures ==
  [ last_name |-> None, first_name |-> None, middle_name |-> None,
    street |-> None, city |-> None, state |-> None, zip |-> None,
    email |-> None, bar |-> None, licensing |-> None, firm |-> None ]

\* re.search on the concatenation of two texts: the first text's match wins
ConcatCaptures(a, b) == [f \in DOMAIN a |-> IF a[f] # None THEN a[f] ELSE b[f]]

\* G28Extractor._get_images
G28_get_images(doc) == IF doc.load = "error" THEN <<>> ELSE doc.pages

\* G28Extractor._ocr_image: the page's text, None when OCR raises
G28_ocr_image(env, page) == IF ~env.tesseract THEN None ELSE page.text

RECURSIVE FullText(_, _)
\* lines 29-33 of extract: None for the empty string, else the captures the
\* patterns find in the concatenated page texts
FullText(env, images) ==
  IF images = <<>> THEN None
  ELSE LET text == G28_ocr_image(env, Head(images))
           rest == FullText(env, Tail(images))
       IN  IF text = None THEN rest
           ELSE IF rest = None THEN text
           ELSE Some(ConcatCaptures(text[1], rest[1]))

StopWords == {"name", "last", "first", "given", "family", "middle"}

\* lines 158-164: a captured name, unless it is a label word
CapturedName(capture) ==
  IF capture = None THEN None
  ELSE LET value == strip(capture[1])
       IN  IF lower(value) \notin StopWords THEN Some(title(value)) ELSE None

\* re.sub(r'\s+', ' ', s.strip())
CollapseTable ==
    "12  Main St" :> "12 Main St" @@ "Smith  Law LLC" :> "Smith Law LLC"

\* re.sub(r'\s+[A-Z]{2}$', '', s.strip())
CityTable ==
    "San Jose CA" :> "San Jose"

\* G28Extractor._extract_from_text
G28FromText(found) ==
  LET state   == IF found.state # None THEN normalize_state(found.state) ELSE None
  IN  [ AttorneyData EXCEPT
          !.last_name = CapturedName(found.last_name),
          !.first_name = CapturedName(found.first_name),
          !.middle_name = CapturedName(found.middle_name),
          !.street_address =
             IF found.street # None THEN Some(Lookup(CollapseTable, strip(found.street[1]))) ELSE None,
          !.city = IF found.city # None THEN Some(Lookup(CityTable, strip(found.city[1]))) ELSE None,
          !.state = state,
          !.zip_code = found.zip,
          !.email = IF found.email # None THEN Some(lower(found.email[1])) ELSE None,
          !.bar_number = found.bar,
          !.licensing_authority =
             IF found.licensing # None THEN Some(title(strip(found.licensing[1]))) ELSE None,
          !.law_firm_name =
             IF found.firm # None THEN Some(Lookup(CollapseTable, strip(found.firm[1]))) ELSE None,
          !.country = IF Truthy(state) THEN Some("United States") ELSE None ]

FailedAttorney ==
  [AttorneyData EXCEPT !.extraction_method = Some("FAILED"),
                       !.confidence_score = Some(FAILED_CONFIDENCE)]

\* Variant: extract with the OCR patterns consulted before the form fields.
G28Extractor_extract_OcrFirst(suffix, doc) ==
  LET pdf       == _extract_pdf_form_fields(doc)
      accepted  == /\ suffix = ".pdf"
                   /\ pdf.data # None
                   /\ _calculate_confidence(pdf.data[1]) > CONFIDENCE_THRESHOLD
      trypdf    == IF suffix = ".pdf" THEN <<"PDF_FORM_FIELDS">> ELSE <<>>
      full_text == FullText(doc.env, G28_get_images(doc))
      data      == G28FromText(full_text[1])
  IN  IF full_text # None
        THEN [attorney    |-> [data EXCEPT !.extraction_method = Some("OCR+NLP"),
                                           !.confidence_score = Some(_calculate_confidence(data))],
              beneficiary |-> None,
              tried       |-> <<"OCR">>]
      ELSE IF accepted
        THEN [attorney    |-> [pdf.data[1] EXCEPT !.extraction_method = Some("PDF_FORM_FIELDS")],
              beneficiary |-> pdf.beneficiary,
              tried       |-> <<"OCR">> \o trypdf]
      ELSE [attorney |-> FailedAttorney, beneficiary |-> None, tried |-> <<"OCR">> \o trypdf]

\* G28Extractor.extract: [attorney, beneficiary], with the strategies it ran
G28Extractor_extract(suffix, doc) ==
  LET pdf       == _extract_pdf_form_fields(doc)
      accepted  == /\ suffix = ".pdf"
                   /\ pdf.data # None
                   /\ _calculate_confidence(pdf.data[1]) > CONFIDENCE_THRESHOLD
      trypdf    == IF suffix = ".pdf" THEN <<"PDF_FORM_FIELDS">> ELSE <<>>
      full_text == FullText(doc.env, G28_get_images(doc))
      data      == G28FromText(full_text[1])
  IN  IF accepted
        THEN [attorney    |-> [pdf.data[1] EXCEPT !.extraction_method = Some("PDF_FORM_FIELDS")],
              beneficiary |-> pdf.beneficiary,
              tried       |-> trypdf]
      ELSE IF full_text # None
        THEN [attorney    |-> [data EXCEPT !.extraction_method = Some("OCR+NLP"),
                                           !.confidence_score = Some(_calculate_confidence(data))],
              beneficiary |-> None,
              tried       |-> trypdf \o <<"OCR">>]
      ELSE [attorney |-> FailedAttorney, beneficiary |-> None, tried |-> trypdf \o <<"OCR">>]

\* whether G28Extractor.extract raises: only the bare call of _get_images can
G28Extractor_raises(suffix, doc) ==
  /\ ~( /\ suffix = ".pdf"
        /\ _extract_pdf_form_fields(doc).data # None
        /\ _calculate_confidence(_extract_pdf_form_fields(doc).data[1]) > CONFIDENCE_THRESHOLD )
  /\ _get_images_raises(doc)

(***************************************************************************)
(* Inputs: what the collaborators (the LLM service, the OCR engine, the    *)
(* TD3 checker, the PDF reader, the entity recogniser and dateparser)      *)
(* return for an uploaded document.                                        *)
(***************************************************************************)
\* the most pages a document has
MaxPages == 2

\* datetime.now().year
CurrentYears == {2024}

\* pytesseract and mrz are optional (their imports are guarded); Pillow is
\* imported unconditionally and is part of every installation
EnvOk == [tesseract |-> TRUE, mrz_lib |-> TRUE, pil |-> TRUE]

Envs == {EnvOk, [EnvOk EXCEPT !.tesseract = FALSE], [EnvOk EXCEPT !.mrz_lib = FALSE]}

SeqsUpTo(S, n) == UNION {[1..k -> S] : k \in 0..n}

\* --- the vision LLM ---
LlmJson(last, first, number, sex) ==
  [ PassportData EXCEPT !.last_name = last, !.first_name = first,
                        !.passport_number = number, !.sex = sex,
                        !.nationality = Some("Utopian"),
                        !.date_of_birth = Some([y |-> 1990, m |-> 1, d |-> 2]) ]

LlmFailure(outcome) == [outcome |-> outcome, json |-> PassportData]

LlmReplies ==
  { LlmFailure(o) : o \in {"no_api_key", "import_error", "no_client", "api_error", "bad_json"} }
    \cup { [outcome |-> "json", json |-> LlmJson(last, Some("Ana"), number, Some("F"))] :
             last \in {None, Some(""), Some("Silva")},
             number \in {None, Some(""), Some("L7654321")} }
    \cup { [outcome |-> "json", json |-> LlmJson(Some("Silva"), Some("Ana"), Some("L7654321"), Some("Female"))] }

\* --- the pages of a passport ---
TD3Line1 ==
  <<"P","<","U","T","O","S","I","L","V","A","<","<","A","N","A">> \o Rep("<", 29)

TD3Line2 ==
  <<"X","1","2","3","4","5","6","7","<","4","U","T","O","9","0","0","1","0","2","1",
    "F","3","0","0","1","0","2","5">> \o Rep("<", 14) \o <<"0","6">>

\* line 1 as OCR may return it: lower case, blanks, a look-alike glyph, a
\* stray character, and two fillers short
NoisyLine1 ==
  <<"p"," ","laquo","U","T","O","S","I","L","V","A","<","<","a","N","A",".">> \o Rep("<", 27)

\* line 2 with one character too many
LongLine2 == TD3Line2 \o <<"<">>

JunkLine == <<"R","E","P","U","B","L","I","C">>

MrzTexts ==
  { None, Some(<<>>), Some(<<JunkLine, TD3Line1>>),
    Some(<<JunkLine, NoisyLine1, LongLine2>>) }

MrzFields(surname, name, number, sex, birth) ==
  [ surname |-> surname, name |-> name, document_number |-> number,
    country |-> "UTO", nationality |-> "BRA", birth_date |-> birth,
    sex |-> sex, expiry_date |-> <<"3","0","0","1","0","2">> ]

NoFields == MrzFields("", "", "", "", <<>>)

TD3Outcomes ==
  { [outcome |-> "raise", fields |-> NoFields],
    [outcome |-> "invalid", fields |-> NoFields],
    [outcome |-> "invalid",
     fields |-> MrzFields("SILVA", "ANA", "X1234567<", "F", <<"9","0","0","1","0","2">>)],
    [outcome |-> "valid",
     fields |-> MrzFields("SILVA", "ANA<LUZ", "X1234567<", "F", <<"9","0","0","1","0","2">>)],
    [outcome |-> "valid",
     fields |-> MrzFields("SILVA", "ANA", "<<<<<<<<<", "F", <<"9","0","0","1","0","2">>)],
    [outcome |-> "valid",
     fields |-> MrzFields("SILVA", "ANA", "X1234567<", "F", <<"9","0","<","1","0","2">>)],
    [outcome |-> "valid",
     fields |-> MrzFields("SILVA", "ANA", "X1234567<", "<", <<"9","0","0","1","0","2">>)] }

\* the whitelist OCR text of a page and what the checker says of its lines
MrzParts ==
  { [mrz_text |-> t, td3 |-> [outcome |-> "invalid", fields |-> NoFields]] :
      t \in MrzTexts \ {Some(<<JunkLine, NoisyLine1, LongLine2>>)} }
    \cup { [mrz_text |-> Some(<<JunkLine, NoisyLine1, LongLine2>>), td3 |-> c] : c \in TD3Outcomes }

NothingFound ==
  [number |-> None, nlp |-> TRUE, persons |-> <<>>, dob |-> None, sex |-> None]

\* the layout OCR text of a page: its length and what the patterns and the
\* entity recogniser find in it
OcrParts ==
  { [outcome |-> "raise", length |-> 0, found |-> NothingFound],
    [outcome |-> "text", length |-> 49, found |-> [NothingFound EXCEPT !.persons = <<"Ana Silva">>]],
    [outcome |-> "text", length |-> 50,
     found |-> [NothingFound EXCEPT !.persons = <<"Ana Luz Silva">>, !.sex = Some("f"),
                                    !.dob = Some([raw |-> "02 Jan 1990",
                                                  parsed |-> Some([y |-> 1990, m |-> 1, d |-> 2])])]],
    [outcome |-> "text", length |-> 80, found |-> NothingFound],
    [outcome |-> "text", length |-> 80, found |-> [NothingFound EXCEPT !.persons = <<"Ana Silva">>]],
    [outcome |-> "text", length |-> 80,
     found |-> [NothingFound EXCEPT !.number = Some("x1234567"), !.persons = <<"Cher">>,
                                    !.dob = Some([raw |-> "1/2/90", parsed |-> None])]] }

PassportPages ==
  { [mrz_text |-> m.mrz_text, td3 |-> m.td3, ocr |-> o] : m \in MrzParts, o \in OcrParts }

\* the pages used in longer documents: with and without text, with a
\* rejected, an accepted and an unusable MRZ, below and above the OCR
\* threshold
KeyPages ==
  { p \in PassportPages :
      /\ p.mrz_text \in {None, Some(<<JunkLine, NoisyLine1, LongLine2>>)}
      /\ p.td3.outcome # "raise"
      /\ p.td3.fields.birth_date \in {<<>>, <<"9","0","0","1","0","2">>}
      /\ (p.mrz_text # None => p.td3.fields # NoFields)
      /\ p.ocr.outcome = "text"
      /\ p.ocr.length # MIN_OCR_TEXT
      /\ p.ocr.found # NothingFound }

PassportDoc(llm, env, load, pages, year) ==
  [llm |-> llm, env |-> env, load |-> load, pages |-> pages, now_year |-> year]

\* every passport document: every reply of the LLM with up to one page of
\* any kind, the LLM absent, failing or accepted with up to MaxPages pages, a
\* missing OCR engine or MRZ library, and a file that cannot be loaded
PassportDocs ==
  { PassportDoc(l, EnvOk, "ok", p, y) :
      l \in LlmReplies, p \in SeqsUpTo(PassportPages, 1), y \in CurrentYears }
    \cup { PassportDoc(l, EnvOk, "ok", p, y) :
             l \in { LlmFailure("no_api_key"), LlmFailure("api_error"),
                     [outcome |-> "json", json |-> LlmJson(None, Some("Ana"), Some("L7654321"), Some("F"))] },
             p \in SeqsUpTo(KeyPages, MaxPages), y \in CurrentYears }
    \cup { PassportDoc(LlmFailure("no_api_key"), e, "ok", p, y) :
             e \in Envs, p \in SeqsUpTo(PassportPages, 1), y \in CurrentYears }
    \cup { PassportDoc(l, EnvOk, "error", <<>>, y) : l \in LlmReplies, y \in CurrentYears }

\* --- a G-28 ---
Widget(name, value) == [field_name |-> name, field_value |-> value]

OptWidget(name, value) == IF value = None THEN <<>> ELSE <<Widget(name, value[1])>>

G28Widgets(last, first, street, state, mobile, email, blast, bfirst, bmiddle) ==
  OptWidget("Pt1Line2a_FamilyName[0]", last)
    \o OptWidget("Pt1Line2b_GivenName[0]", first)
    \o OptWidget("Line3a_StreetNumber[0]", street)
    \o OptWidget("Line3d_State[0]", state)
    \o OptWidget("Line7_MobileTelephoneNumber[0]", mobile)
    \o OptWidget("Line6_EMail[0]", email)
    \o OptWidget("Pt3Line5a_FamilyName[0]", blast)
    \o OptWidget("Pt3Line5b_GivenName[0]", bfirst)
    \o OptWidget("Pt3Line5c_MiddleName[0]", bmiddle)

Forms ==
  { [outcome |-> "ok", widgets |-> G28Widgets(l, f, st, sa, mo, em, bl, bf, bm)] :
      l \in {None, Some(" Smith ")}, f \in {None, Some("Jane")},
      st \in {None, Some("12 Main St")}, sa \in {None, Some("California")},
      mo \in {None, Some("jane@example.com"), Some(" 555-0100 ")},
      em \in {None, Some("x@y.org")},
      bl \in {None, Some("Silva"), Some(" n/a ")}, bf \in {None, Some(" Maria")},
      bm \in {None, Some("Luz")} }
    \cup { [outcome |-> "error", widgets |-> <<>>],
           \* a widget without a value, lower-case field names, a repeated widget
           [outcome |-> "ok", widgets |-> <<Widget("Pt1Line2a_FamilyName[0]", "")>>],
           [outcome |-> "ok",
            widgets |-> << Widget("pt1line2a_familyname[0]", "Smith"),
                           Widget("pt1line2b_givenname[0]", "Jane"),
                           Widget("pt3line5a_familyname[0]", "Lee"),
                           Widget("Pt3Line5a_FamilyName[0]", "N/A") >>],
           [outcome |-> "ok",
            widgets |-> << Widget("Pt1Line2a_FamilyName[0]", "Smith"),
                           Widget("Pt1Line2b_GivenName[0]", "Jane"),
                           Widget("Pt3Line5a_FamilyName[0]", "Silva"),
                           Widget("Pt3Line5a_FamilyName[0]", "Lee") >>] }

\* forms used with longer documents: an accepted form with a beneficiary, a
\* form of beneficiary fields only, and a reader that fails
KeyForms ==
  { [outcome |-> "ok",
     widgets |-> G28Widgets(Some(" Smith "), Some("Jane"), None, None, None, None,
                            Some("Silva"), Some(" Maria"), None)],
    [outcome |-> "ok",
     widgets |-> G28Widgets(None, None, None, None, None, None, Some("Silva"), Some(" Maria"), None)],
    [outcome |-> "error", widgets |-> <<>>] }

G28Texts ==
  { None,
    Some(NoCaptures),
    Some([NoCaptures EXCEPT !.last_name = Some("Name"), !.state = Some("ZZ")]),
    Some([NoCaptures EXCEPT !.last_name = Some("Smith"), !.first_name = Some("JANE"),
                            !.middle_name = Some("Q"), !.street = Some("12  Main St"),
                            !.city = Some("San Jose CA"), !.state = Some("CA"),
                            !.zip = Some("95113"), !.email = Some("Jane@Example.com"),
                            !.bar = Some("123456"),
                            !.licensing = Some("state bar of california"),
                            !.firm = Some("Smith  Law LLC")]) }

G28Pages == { [text |-> t] : t \in G28Texts }

G28Doc(form, env, load, pages) == [form |-> form, env |-> env, load |-> load, pages |-> pages]

G28Docs ==
  { G28Doc(f, EnvOk, "ok", p) : f \in Forms, p \in SeqsUpTo(G28Pages, 1) }
    \cup { G28Doc(f, EnvOk, "ok", p) : f \in KeyForms, p \in SeqsUpTo(G28Pages, MaxPages) }
    \cup { G28Doc(f, [EnvOk EXCEPT !.tesseract = FALSE], "ok", p) :
             f \in KeyForms, p \in SeqsUpTo(G28Pages, 1) }
    \cup { G28Doc(f, EnvOk, "error", <<>>) : f \in KeyForms }

\* Variant: a handler without the extension check.
allowed_extensions_Any == {".pdf", ".jpg", ".jpeg", ".png", ".docx"}

\* the suffixes the upload handlers accept, and one they reject
allowed_extensions == {".pdf", ".jpg", ".jpeg", ".png"}

Suffixes == {".pdf", ".png", ".docx"}

(***************************************************************************)
(* app.py: the session store and the request handlers.                     *)
(*                                                                         *)
(* The handlers are coroutines of one asyncio event loop: a handler runs   *)
(* without interruption from one await to the next.  `running` is the      *)
(* request that holds the loop.  The upload handlers await once, in        *)
(* `await file.read()`.                                                    *)
(***************************************************************************)
\* the requests of a run, numbered in order of arrival
MaxRequests == 2

Requests == 1..MaxRequests

\* session keys; generate_session_id() formats the clock reading
GeneratedIds == {"20261104_091500_000001"}

Keys == GeneratedIds \cup {"case-A"}

\* the documents uploaded to the service
UploadedPassports ==
  { PassportDoc([outcome |-> "json", json |-> LlmJson(None, Some("Ana"), Some("L7654321"), Some("F"))],
                EnvOk, "ok", <<>>, 2024),
    PassportDoc([outcome |-> "json", json |-> LlmJson(Some(""), Some("Ana"), Some("L7654321"), Some("F"))],
                EnvOk, "ok", <<>>, 2024),
    PassportDoc(LlmFailure("no_api_key"), EnvOk, "ok",
                << [ mrz_text |-> Some(<<JunkLine, NoisyLine1, LongLine2>>),
                     td3 |-> [outcome |-> "valid",
                              fields |-> MrzFields("SILVA", "ANA<LUZ", "X1234567<", "F",
                                                   <<"9","0","0","1","0","2">>)],
                     ocr |-> [outcome |-> "raise", length |-> 0, found |-> NothingFound] ] >>, 2024),
    PassportDoc(LlmFailure("no_api_key"), EnvOk, "ok",
                << [ mrz_text |-> None,
                     td3 |-> [outcome |-> "invalid", fields |-> NoFields],
                     ocr |-> [outcome |-> "text", length |-> 80,
                              found |-> [NothingFound EXCEPT !.persons = <<"Ana Silva">>]] ] >>, 2024),
    \* the LLM call fails and the file cannot be loaded
    PassportDoc(LlmFailure("api_error"), EnvOk, "error", <<>>, 2024) }

UploadedG28s ==
  { G28Doc([outcome |-> "ok",
            widgets |-> G28Widgets(Some(" Smith "), Some("Jane"), None, None, None, None,
                                   Some("Silva"), Some(" Maria"), None)], EnvOk, "ok", <<>>),
    G28Doc([outcome |-> "ok",
            widgets |-> << Widget("pt1line2a_familyname[0]", "Smith"),
                           Widget("pt1line2b_givenname[0]", "Jane"),
                           Widget("pt3line5a_familyname[0]", "Lee"),
                           Widget("Pt3Line5a_FamilyName[0]", "N/A") >>], EnvOk, "ok", <<>>),
    G28Doc([outcome |-> "ok",
            widgets |-> G28Widgets(None, None, None, None, None, None,
                                   Some("Silva"), Some(" Maria"), None)], EnvOk, "ok", <<>>),
    G28Doc([outcome |-> "error", widgets |-> <<>>], EnvOk, "ok",
           << [text |-> Some([NoCaptures EXCEPT !.last_name = Some("Name"), !.state = Some("ZZ")])] >>) }

VARIABLES
  extraction_store,   \* app.extraction_store: session key -> ExtractedFormData
  requests,           \* the handler invocations: position, arguments, locals, response
  running,            \* the request that holds the event loop, or None
  serial,             \* the store the committed requests produce when run one at a time
  job                 \* one run of an orchestrator on its own: input and output

vars == <<extraction_store, requests, running, serial, job>>

NewRequest ==
  [ pc |-> "new", kind |-> "", session_id |-> None, ext |-> "", content |-> None,
    passport_data |-> None, attorney_data |-> None, beneficiary_data |-> None,
    response |-> None ]

IdleJob == [stage |-> "idle"]

Init ==
  /\ extraction_store = <<>>
  /\ requests = [r \in Requests |-> NewRequest]
  /\ running = None
  /\ serial = <<>>
  /\ job = IdleJob

\* ExtractionResponse, or the HTTPException the handler raises
Response(status, success, message, session_id) ==
  [status |-> status, success |-> success, message |-> message, session_id |-> session_id]

\* Variant: handlers that can be preempted between any two statements, as
\* threads would be.
Suspends_Always(pc) == TRUE

\* the positions at which a handler gives up the event loop: the await of
\* file.read(), and its return
Suspends(pc) == pc \in {"read", "done"}

Release(r, pc) == IF Suspends(pc) THEN None ELSE Some(r)

CanRun(r) == running = None \/ running = Some(r)

Arrives(r) ==
  /\ requests[r].pc = "new"
  /\ running = None
  /\ IF r = 1 THEN TRUE ELSE requests[r - 1].pc # "new"

\* `if session_id not in extraction_store: extraction_store[session_id] = ExtractedFormData()`
EnsureCase(store, session_id) ==
  IF session_id \in DOMAIN store THEN store ELSE (session_id :> ExtractedFormData) @@ store

\* Variant: a passport upload that keeps a passport record already stored.
SetPassport_FirstWins(store, session_id, passport_data) ==
  [store EXCEPT ![session_id].passport = IF @ = None THEN Some(passport_data) ELSE @]

\* `extraction_store[session_id].passport = passport_data`
SetPassport(store, session_id, passport_data) ==
  [store EXCEPT ![session_id].passport = Some(passport_data)]

\* `extraction_store[session_id].attorney = attorney_data`
SetAttorney(store, session_id, attorney_data) ==
  [store EXCEPT ![session_id].attorney = Some(attorney_data)]

\* Variant: the merge without the `if not existing.<name>` tests.
FillNames_Overwrite(existing, beneficiary_data) ==
  [ existing EXCEPT
      !.last_name = beneficiary_data.last_name,
      !.first_name = beneficiary_data.first_name,
      !.middle_name = beneficiary_data.middle_name ]

\* Variant: a merge that also takes over the beneficiary's provenance.
FillNames_Restamp(existing, beneficiary_data) ==
  [ existing EXCEPT
      !.last_name = IF ~Truthy(@) THEN beneficiary_data.last_name ELSE @,
      !.first_name = IF ~Truthy(@) THEN beneficiary_data.first_name ELSE @,
      !.middle_name = IF ~Truthy(@) THEN beneficiary_data.middle_name ELSE @,
      !.extraction_method = beneficiary_data.extraction_method,
      !.confidence_score = beneficiary_data.confidence_score ]

\* lines 132-138: fill the unset names of the stored passport
FillNames(existing, beneficiary_data) ==
  [ existing EXCEPT
      !.last_name = IF ~Truthy(@) THEN beneficiary_data.last_name ELSE @,
      !.first_name = IF ~Truthy(@) THEN beneficiary_data.first_name ELSE @,
      !.middle_name = IF ~Truthy(@) THEN beneficiary_data.middle_name ELSE @ ]

\* lines 132-138 on the store
FillPassport(store, session_id, beneficiary_data) ==
  [store EXCEPT ![session_id].passport = Some(FillNames(@[1], beneficiary_data[1]))]

\* Variant: upload_g28 without its else branch, the beneficiary is dropped.
AdoptBeneficiary_Discard(store, session_id, beneficiary_data) == store

\* line 140: `extraction_store[session_id].passport = beneficiary_data`
AdoptBeneficiary(store, session_id, beneficiary_data) ==
  [store EXCEPT ![session_id].passport = beneficiary_data]

\* lines 130-140: the beneficiary merge
MergeBeneficiary(store, session_id, beneficiary_data) ==
  IF beneficiary_data = None THEN store
  ELSE IF IsSet(store[session_id].passport)
    THEN FillPassport(store, session_id, beneficiary_data)
  ELSE AdoptBeneficiary(store, session_id, beneficiary_data)

\* Variant: a delete that answers and removes nothing.
DeleteCase_Keep(store, session_id) == store

\* `del extraction_store[session_id]`
DeleteCase(store, session_id) == [k \in DOMAIN store \ {session_id} |-> store[k]]

\* lines 89-91 of upload_passport, start to end
UploadPassportEffect(store, session_id, passport_data) ==
  SetPassport(EnsureCase(store, session_id), session_id, passport_data)

\* lines 125-140 of upload_g28, start to end
UploadG28Effect(store, session_id, attorney_data, beneficiary_data) ==
  MergeBeneficiary(SetAttorney(EnsureCase(store, session_id), session_id, attorney_data),
                   session_id, beneficiary_data)

\* the handler returns or raises: its locals are gone, the response is sent
Finish(r, response) ==
  /\ requests' = [requests EXCEPT ![r].pc = "done", ![r].response = Some(response),
                                  ![r].ext = "", ![r].content = None, ![r].passport_data = None, ![r].attorney_data = None,
                                  ![r].beneficiary_data = None]
  /\ running' = Release(r, "done")

Goto(r, pc) ==
  /\ requests' = [requests EXCEPT ![r].pc = pc]
  /\ running' = Release(r, pc)

\* the response of a successful upload
Extracted(r, label, method) ==
  Response(200, TRUE, <<label, method>>, Some(requests[r].session_id[1]))

\* lines 73-80 and 109-116: the extension check and the session id, up to the
\* await of file.read()
Accept(kind, ext, session_id, now_id) ==
  IF ext \notin allowed_extensions
    THEN [NewRequest EXCEPT !.pc = "done", !.kind = kind, !.ext = ext,
                            !.response = Some(Response(400, FALSE, "Unsupported file type",
                                                       None))]
  ELSE [NewRequest EXCEPT !.pc = "read", !.kind = kind, !.ext = ext,
                          !.session_id = IF ~Truthy(session_id) THEN Some(now_id)
                                         ELSE session_id]

SessionIdArgs == {None, Some("")} \cup {Some(k) : k \in Keys}

\* POST /upload/passport arrives
upload_passport(r) ==
  /\ Arrives(r)
  /\ \E ext \in Suffixes, session_id \in SessionIdArgs, now_id \in GeneratedIds :
       LET req == Accept("passport", ext, session_id, now_id)
       IN  /\ requests' = [requests EXCEPT ![r] = req]
           /\ running' = Release(r, req.pc)
  /\ UNCHANGED <<extraction_store, serial, job>>

\* POST /upload/g28 arrives
upload_g28(r) ==
  /\ Arrives(r)
  /\ \E ext \in Suffixes, session_id \in SessionIdArgs, now_id \in GeneratedIds :
       LET req == Accept("g28", ext, session_id, now_id)
       IN  /\ requests' = [requests EXCEPT ![r] = req]
           /\ running' = Release(r, req.pc)
  /\ UNCHANGED <<extraction_store, serial, job>>

\* upload_passport lines 83-87: the file is read and saved (either may
\* raise) and the passport orchestrator runs
ReadPassport(r) ==
  /\ requests[r].pc = "read" /\ requests[r].kind = "passport"
  /\ running = None
  /\ \E io_ok \in BOOLEAN, doc \in UploadedPassports :
       IF ~io_ok
         THEN Finish(r, Response(500, FALSE, "OSError", requests[r].session_id))
       ELSE IF PassportExtractor_raises(doc, TRUE)
         THEN Finish(r, Response(500, FALSE, "extract raised", requests[r].session_id))
       ELSE /\ requests' = [requests EXCEPT
                              ![r].pc = "ensure", ![r].content = Some(doc),
                              ![r].passport_data = Some(PassportExtractor_extract(doc, TRUE).data)]
            /\ running' = Release(r, "ensure")
  /\ UNCHANGED <<extraction_store, serial, job>>

\* upload_g28 lines 119-123
ReadG28(r) ==
  /\ requests[r].pc = "read" /\ requests[r].kind = "g28"
  /\ running = None
  /\ \E io_ok \in BOOLEAN, doc \in UploadedG28s :
       IF ~io_ok
         THEN Finish(r, Response(500, FALSE, "OSError", requests[r].session_id))
       ELSE IF G28Extractor_raises(requests[r].ext, doc)
         THEN Finish(r, Response(500, FALSE, "extract raised", requests[r].session_id))
       ELSE LET out == G28Extractor_extract(requests[r].ext, doc)
            IN  /\ requests' = [requests EXCEPT
                                  ![r].pc = "ensure", ![r].content = Some(doc),
                                  ![r].attorney_data = Some(out.attorney),
                                  ![r].beneficiary_data = out.beneficiary]
                /\ running' = Release(r, "ensure")
  /\ UNCHANGED <<extraction_store, serial, job>>

\* Variant: a handler that raises right after it has created the case record.
Ensure_ThenRaise(r) ==
  /\ requests[r].pc = "ensure" /\ CanRun(r)
  /\ extraction_store' = EnsureCase(extraction_store, requests[r].session_id[1])
  /\ Finish(r, Response(500, FALSE, "raised", requests[r].session_id))
  /\ UNCHANGED <<serial, job>>

\* lines 89-90 and 125-126
Ensure(r) ==
  /\ requests[r].pc = "ensure" /\ CanRun(r)
  /\ extraction_store' = EnsureCase(extraction_store, requests[r].session_id[1])
  /\ Goto(r, "assign")
  /\ UNCHANGED <<serial, job>>

\* line 91, then the response of lines 93-100; a missing key is a KeyError,
\* which the handler turns into a 500
AssignPassport(r) ==
  /\ requests[r].pc = "assign" /\ requests[r].kind = "passport" /\ CanRun(r)
  /\ LET sid == requests[r].session_id[1]
         pd  == requests[r].passport_data[1]
     IN  IF sid \notin DOMAIN extraction_store
           THEN /\ Finish(r, Response(500, FALSE, "KeyError", Some(sid)))
                /\ UNCHANGED <<extraction_store, serial>>
         ELSE /\ extraction_store' = SetPassport(extraction_store, sid, pd)
              /\ serial' = UploadPassportEffect(serial, sid, pd)
              /\ Finish(r, Extracted(r, "Passport extracted", pd.extraction_method))
  /\ UNCHANGED job

\* line 127
AssignAttorney(r) ==
  /\ requests[r].pc = "assign" /\ requests[r].kind = "g28" /\ CanRun(r)
  /\ LET sid == requests[r].session_id[1]
     IN  IF sid \notin DOMAIN extraction_store
           THEN /\ Finish(r, Response(500, FALSE, "KeyError", Some(sid)))
                /\ UNCHANGED extraction_store
         ELSE /\ extraction_store' = SetAttorney(extraction_store, sid, requests[r].attorney_data[1])
              /\ Goto(r, "merge")
  /\ UNCHANGED <<serial, job>>

\* the G-28 upload returns: lines 142-149
FinishG28(r) ==
  /\ requests[r].kind = "g28"
  /\ serial' = UploadG28Effect(serial, requests[r].session_id[1],
                               requests[r].attorney_data[1], requests[r].beneficiary_data)
  /\ Finish(r, Extracted(r, "G-28 extracted", requests[r].attorney_data[1].extraction_method))

\* lines 130-131 and 139: which branch of the merge runs
MergeCheck(r) ==
  /\ requests[r].pc = "merge" /\ CanRun(r)
  /\ LET sid == requests[r].session_id[1]
     IN  IF requests[r].beneficiary_data = None
           THEN FinishG28(r)
         ELSE IF sid \notin DOMAIN extraction_store
           THEN Finish(r, Response(500, FALSE, "KeyError", Some(sid))) /\ UNCHANGED serial
         ELSE IF IsSet(extraction_store[sid].passport)
           THEN Goto(r, "fill") /\ UNCHANGED serial
         ELSE Goto(r, "adopt") /\ UNCHANGED serial
  /\ UNCHANGED <<extraction_store, job>>

\* lines 132-138: the names the stored passport lacks
Fill(r) ==
  /\ requests[r].pc = "fill" /\ CanRun(r)
  /\ LET sid == requests[r].session_id[1]
     IN  extraction_store' =
           IF sid \in DOMAIN extraction_store /\ IsSet(extraction_store[sid].passport)
             THEN FillPassport(extraction_store, sid, requests[r].beneficiary_data)
           ELSE extraction_store
  /\ FinishG28(r)
  /\ UNCHANGED job

\* line 140: the beneficiary record becomes the passport record
Adopt(r) ==
  /\ requests[r].pc = "adopt" /\ CanRun(r)
  /\ LET sid == requests[r].session_id[1]
     IN  IF sid \notin DOMAIN extraction_store
           THEN /\ Finish(r, Response(500, FALSE, "KeyError", Some(sid)))
                /\ UNCHANGED <<extraction_store, serial>>
         ELSE /\ extraction_store' =
                   AdoptBeneficiary(extraction_store, sid, requests[r].beneficiary_data)
              /\ FinishG28(r)
  /\ UNCHANGED job

\* GET /extraction/{session_id}
get_extraction(r) ==
  /\ Arrives(r)
  /\ \E session_id \in Keys :
       requests' = [requests EXCEPT
                      ![r] = [@ EXCEPT !.pc = "done", !.kind = "get",
                                       !.session_id = Some(session_id),
                                       !.response =
                                          IF session_id \notin DOMAIN extraction_store
                                            THEN Some(Response(404, FALSE, "Session not found",
                                                               Some(session_id)))
                                          ELSE Some(Response(200, TRUE, "Data retrieved",
                                                             Some(session_id)))]]
  /\ UNCHANGED <<extraction_store, running, serial, job>>

\* POST /fill-form: not found without a case record, bad input for an empty
\* one; otherwise the browser automation runs and succeeds or raises.  The
\* store is read, never written.
fill_form(r) ==
  /\ Arrives(r)
  /\ \E session_id \in Keys, filled \in BOOLEAN :
       LET response ==
             IF session_id \notin DOMAIN extraction_store
               THEN Response(404, FALSE, "Session not found", Some(session_id))
             ELSE IF /\ ~IsSet(extraction_store[session_id].passport)
                     /\ ~IsSet(extraction_store[session_id].attorney)
               THEN Response(400, FALSE, "No data available", Some(session_id))
             ELSE IF filled
               THEN Response(200, TRUE, "Form filled successfully", Some(session_id))
             ELSE Response(500, FALSE, "FormFiller raised", Some(session_id))
       IN  requests' = [requests EXCEPT
                          ![r] = [@ EXCEPT !.pc = "done", !.kind = "fill",
                                           !.session_id = Some(session_id),
                                           !.response = Some(response)]]
  /\ UNCHANGED <<extraction_store, running, serial, job>>

\* DELETE /session/{session_id}
delete_session(r) ==
  /\ Arrives(r)
  /\ \E session_id \in Keys :
       IF session_id \in DOMAIN extraction_store
         THEN /\ extraction_store' = DeleteCase(extraction_store, session_id)
              /\ serial' = DeleteCase(serial, session_id)
              /\ requests' = [requests EXCEPT
                                ![r] = [@ EXCEPT !.pc = "done", !.kind = "delete",
                                                 !.session_id = Some(session_id),
                                                 !.response = Some(Response(200, TRUE, "deleted",
                                                                            Some(session_id)))]]
       ELSE /\ requests' = [requests EXCEPT
                              ![r] = [@ EXCEPT !.pc = "done", !.kind = "delete",
                                               !.session_id = Some(session_id),
                                               !.response = Some(Response(404, FALSE,
                                                                 "Session not found",
                                                                 Some(session_id)))]]
            /\ UNCHANGED <<extraction_store, serial>>
  /\ UNCHANGED <<running, job>>

Next ==
  \E r \in Requests :
    \/ upload_passport(r)
    \/ upload_g28(r)
    \/ ReadPassport(r)
    \/ ReadG28(r)
    \/ Ensure(r)
    \/ AssignPassport(r)
    \/ AssignAttorney(r)
    \/ MergeCheck(r)
    \/ Fill(r)
    \/ Adopt(r)
    \/ get_extraction(r)
    \/ fill_form(r)
    \/ delete_session(r)

Spec == Init /\ [][Next]_vars

(***************************************************************************)
(* The orchestrators on their own: one run of PassportExtractor.extract or *)
(* G28Extractor.extract on any document.                                   *)
(***************************************************************************)
RunPassport ==
  /\ job.stage = "idle"
  /\ \E doc \in PassportDocs :
       job' = [ stage |-> "done", kind |-> "passport", suffix |-> ".pdf", doc |-> doc,
                out |-> PassportExtractor_extract(doc, TRUE) ]
  /\ UNCHANGED <<extraction_store, requests, running, serial>>

RunG28 ==
  /\ job.stage = "idle"
  /\ \E doc \in G28Docs, suffix \in {".pdf", ".png"} :
       job' = [ stage |-> "done", kind |-> "g28", suffix |-> suffix, doc |-> doc,
                out |-> G28Extractor_extract(suffix, doc) ]
  /\ UNCHANGED <<extraction_store, requests, running, serial>>

\* --- an MRZ date token ---
DigitChar(n) ==
  CASE n = 0 -> "0" [] n = 1 -> "1" [] n = 2 -> "2" [] n = 3 -> "3" [] n = 4 -> "4"
    [] n = 5 -> "5" [] n = 6 -> "6" [] n = 7 -> "7" [] n = 8 -> "8" [] n = 9 -> "9"

\* the birth or expiry date field of an MRZ: every two-digit year with a
\* month and a day, and fields that are short, empty or hold other
\* characters of the MRZ alphabet
DateTokens ==
  { <<DigitChar(yy \div 10), DigitChar(yy % 10)>> \o md :
      yy \in 0..99, md \in { <<"0","1","0","2">>, <<"1","2","3","1">> } }
    \cup { <<>>, <<"9">>, <<"9","0","0","1","0">>,
           <<"<","<","<","<","<","<">>, <<"9","0","<","1","0","2">>,
           <<"9","O","0","1","0","2">>, <<"9","0","0","1","0","<">>,
           <<"<","0","0","1","0","2">> }

\* datetime.now().year at the time of the call
DateYears == {2024, 2026, 2089, 2095}

\* one call of _parse_mrz_date
RunDate ==
  /\ job.stage = "idle"
  /\ \E date_str \in DateTokens, now_year \in DateYears :
       job' = [ stage |-> "done", kind |-> "date", date_str |-> date_str,
                now_year |-> now_year, out |-> _parse_mrz_date(date_str, now_year) ]
  /\ UNCHANGED <<extraction_store, requests, running, serial>>

\* --- the text handed to the MRZ locator ---
MaxLines == 3

\* lines whose cleaned length is 8, 41, 42, 44, 46 and 47, a line of 47
\* characters of which five are blanks, and lines with lower-case letters, a
\* look-alike glyph and a stray character
LocatorLines ==
  { JunkLine,
    <<"A">> \o Rep("<", 40),
    <<"B">> \o Rep("<", 41),
    TD3Line2,
    TD3Line1 \o <<"<", "<">>,
    <<"D">> \o Rep("<", 46),
    <<"E", " ", " ", " ", " ", " ">> \o Rep("<", 41),
    NoisyLine1,
    <<"p", "a">> \o Rep("<", 45) }

\* the OCR text, as the list of its lines
LocatorTexts == SeqsUpTo(LocatorLines, MaxLines)

\* one call of _find_mrz_lines
RunLocate ==
  /\ job.stage = "idle"
  /\ \E text \in LocatorTexts :
       job' = [ stage |-> "done", kind |-> "locate", text |-> text,
                out |-> _find_mrz_lines(text) ]
  /\ UNCHANGED <<extraction_store, requests, running, serial>>

NextExtract == RunPassport \/ RunG28 \/ RunDate \/ RunLocate

SpecExtract == Init /\ [][NextExtract]_vars

(***************************************************************************)
(* Properties of the orchestrators (checked under SpecExtract).            *)
(***************************************************************************)
PassportJob == job.stage = "done" /\ job.kind = "passport"

G28Job == job.stage = "done" /\ job.kind = "g28"

\* two passport records agree on every data field
SameData(a, b) == \A f \in PassportDataFields : a[f] = b[f]

\* the LLM is available, raises nothing and returns a record with a passport
\* number or a last name
LlmAccepted(doc) ==
  /\ doc.llm.outcome = "json"
  /\ ValidPassportData(doc.llm.json)
  /\ (Truthy(doc.llm.json.passport_number) \/ Truthy(doc.llm.json.last_name))

\* the MRZ result of the document, and whether it carries a passport number
MrzResult(doc) == _extract_mrz(doc.env, _get_images(doc), doc.now_year)

MrzAccepted(doc) ==
  LET result == MrzResult(doc)
  IN  result # None /\ Truthy(result[1].passport_number)

\* the pages whose OCR text has at least 50 characters and yields a passport
\* number or a last name
OcrPages(doc) ==
  { i \in 1..Len(_get_images(doc)) :
      LET page == _get_images(doc)[i]
      IN  /\ doc.env.tesseract
          /\ page.ocr.outcome = "text"
          /\ page.ocr.length >= 50
          /\ \/ Truthy(PassportFromText(page.ocr.found).passport_number)
             \/ Truthy(PassportFromText(page.ocr.found).last_name) }

OcrAccepted(doc) == OcrPages(doc) # {}

FirstOcrPage(doc) == CHOOSE i \in OcrPages(doc) : \A j \in OcrPages(doc) : i <= j

\* C1: the passport orchestrator consults the LLM, then the MRZ, then the OCR
\* patterns, stops at the first strategy whose result is acceptable and
\* returns that strategy's data; it returns FAILED exactly when no strategy
\* gives an acceptable result.
C1_PriorityOrder ==
  PassportJob =>
    LET doc   == job.doc
        data  == job.out.data
        tried == job.out.tried
    IN  /\ LlmAccepted(doc) =>
             /\ tried = <<"LLM">>
             /\ SameData(data, doc.llm.json)
        /\ ~LlmAccepted(doc) /\ MrzAccepted(doc) =>
             /\ tried = <<"LLM", "MRZ">>
             /\ SameData(data, MrzResult(doc)[1])
        /\ ~LlmAccepted(doc) /\ ~MrzAccepted(doc) /\ OcrAccepted(doc) =>
             /\ tried = <<"LLM", "MRZ", "OCR">>
             /\ SameData(data, PassportFromText(doc.pages[FirstOcrPage(doc)].ocr.found))
        /\ data.extraction_method = Some("FAILED")
             <=> ~LlmAccepted(doc) /\ ~MrzAccepted(doc) /\ ~OcrAccepted(doc)

\* a document on which the MRZ and the OCR patterns are both acceptable and
\* the LLM is not: the MRZ result is returned
C1_Witness ==
  /\ PassportJob
  /\ ~LlmAccepted(job.doc) /\ MrzAccepted(job.doc) /\ OcrAccepted(job.doc)
  /\ job.out.data.extraction_method = Some("MRZ")
  /\ job.out.data.passport_number = Some("X1234567")

\* the form-field record of a G-28 and its score
FormRecord(doc) == _extract_pdf_form_fields(doc).data

PdfAccepted(suffix, doc) ==
  LET form_data == FormRecord(doc)
  IN  /\ suffix = ".pdf"
      /\ form_data # None
      /\ _calculate_confidence(form_data[1]) > 300

\* OCR gives some text for the document
OcrDerived(doc) == FullText(doc.env, G28_get_images(doc)) # None

\* C8: the representative orchestrator returns a result other than FAILED
\* only if the strategy's confidence score is strictly greater than 0.3.
C8_ThresholdOnEveryStrategy ==
  G28Job /\ job.out.attorney.extraction_method # Some("FAILED")
    => job.out.attorney.confidence_score[1] > 300

\* the representative strategy order, with the label the OCR strategy stamps
StrategyOrder(ocr_label) ==
  G28Job =>
    LET doc == job.doc
        out == job.out
    IN  IF PdfAccepted(job.suffix, doc)
          THEN /\ out.attorney.extraction_method = Some("PDF_FORM_FIELDS")
               /\ out.attorney.last_name = FormRecord(doc)[1].last_name
               /\ out.tried = <<"PDF_FORM_FIELDS">>
        ELSE IF OcrDerived(doc)
          THEN /\ out.attorney.extraction_method = Some(ocr_label)
               /\ out.tried \in {<<"OCR">>, <<"PDF_FORM_FIELDS", "OCR">>}
        ELSE out.attorney.extraction_method = Some("FAILED")

\* C9 as stated: PDF_FORM_FIELDS when the form-field score exceeds 0.3 and
\* then OCR is not consulted, otherwise an OCR-derived record with method
\* OCR_PATTERN, otherwise FAILED.
C9_OrderWithSpecLabel == StrategyOrder("OCR_PATTERN")

\* C9: PDF_FORM_FIELDS when the form-field score exceeds 0.3 and then OCR is
\* not consulted, otherwise an OCR-derived record, which carries the method
\* "OCR+NLP", otherwise FAILED.
C9_StrategyOrder == StrategyOrder("OCR+NLP")

\* an accepted form on a document whose pages also have text
C9_Witness ==
  /\ G28Job
  /\ PdfAccepted(job.suffix, job.doc) /\ OcrDerived(job.doc)
  /\ job.out.attorney.extraction_method = Some("PDF_FORM_FIELDS")
  /\ "OCR" \notin {job.out.tried[i] : i \in DOMAIN job.out.tried}

\* the form fields of the document carry a beneficiary with a last name or a
\* first name
CarriesBeneficiary(doc) ==
  /\ doc.form.outcome = "ok"
  /\ \/ MappedValue(FormFields(doc.form.widgets), "Pt3Line5a_FamilyName[0]") # None
     \/ MappedValue(FormFields(doc.form.widgets), "Pt3Line5b_GivenName[0]") # None

\* C10: a PDF whose form fields carry a beneficiary with a last or a first
\* name always yields a G28_BENEFICIARY / 0.5 record to merge, whichever
\* strategy gives the representative record; without such a name there is
\* no beneficiary record.
C10_BeneficiaryAlwaysYielded ==
  G28Job /\ job.suffix = ".pdf" =>
    IF CarriesBeneficiary(job.doc)
      THEN /\ job.out.beneficiary # None
           /\ job.out.beneficiary[1].extraction_method = Some("G28_BENEFICIARY")
           /\ job.out.beneficiary[1].confidence_score = Some(500)
    ELSE job.out.beneficiary = None

(***************************************************************************)
(* Properties of the store and the upload handlers (checked under Spec).   *)
(***************************************************************************)
\* the case record under a key, None when the key is absent
CaseAt(store, k) == IF k \in DOMAIN store THEN Some(store[k]) ELSE None

\* the passport record of the case under a key, None when there is none
PassportAt(store, k) == IF k \in DOMAIN store THEN store[k].passport ELSE None

AttorneyAt(store, k) == IF k \in DOMAIN store THEN store[k].attorney ELSE None

NameAt(store, k, f) == IF PassportAt(store, k) = None THEN None ELSE PassportAt(store, k)[1][f]

\* this step is taken by request r
StepOf(r) == requests'[r] # requests[r]

\* this step is a step of a G-28 upload r past its arrival
G28Step(r) == requests[r].kind = "g28" /\ StepOf(r)

\* this step ends upload r with a success response
Succeeds(r) ==
  /\ StepOf(r)
  /\ requests'[r].pc = "done"
  /\ requests'[r].response[1].status = 200 /\ requests'[r].response[1].success

\* a G-28 upload changes a stored passport name only where the name is unset
\* (None or empty), and then to the beneficiary's value
OnlyUnsetNamesFilled ==
  \A r \in Requests, k \in Keys, f \in NameFields :
    G28Step(r) /\ NameAt(extraction_store', k, f) # NameAt(extraction_store, k, f) =>
      /\ ~Truthy(NameAt(extraction_store, k, f))
      /\ requests[r].session_id = Some(k)
      /\ requests[r].beneficiary_data # None
      /\ NameAt(extraction_store', k, f) = requests[r].beneficiary_data[1][f]

\* C2: a G-28 upload never changes a name field of the passport record that
\* is populated when the upload runs; it copies the beneficiary's value only
\* into name fields that are unset.
C2_PopulatedNamesKept == [][OnlyUnsetNamesFilled]_vars

\* the LLM record with first name Ana and no last name, after a G-28 upload
\* whose beneficiary is Silva, Maria
C2_Witness ==
  \E k \in Keys, r \in Requests :
    /\ requests[r].kind = "g28" /\ requests[r].pc = "done"
    /\ requests[r].session_id = Some(k)
    /\ PassportAt(extraction_store, k) # None
    /\ PassportAt(extraction_store, k)[1].extraction_method = Some("LLM_OPENAI")
    /\ PassportAt(extraction_store, k)[1].first_name = Some("Ana")
    /\ PassportAt(extraction_store, k)[1].last_name = Some("Silva")

\* a G-28 upload with a beneficiary that ends on a case without a passport
\* record leaves the beneficiary record as the passport record
BeneficiaryAdopted ==
  \A r \in Requests :
    LET k == requests[r].session_id[1]
    IN  /\ G28Step(r) /\ Succeeds(r)
        /\ requests[r].beneficiary_data # None
        /\ PassportAt(extraction_store, k) = None
        => /\ PassportAt(extraction_store', k) = requests[r].beneficiary_data
           /\ PassportAt(extraction_store', k)[1].extraction_method = Some("G28_BENEFICIARY")
           /\ PassportAt(extraction_store', k)[1].confidence_score = Some(500)

\* C3: when a G-28 upload produces a beneficiary record and the case holds
\* no passport record, the beneficiary record is stored as the passport
\* record unchanged, with method G28_BENEFICIARY and confidence 0.5.
C3_BeneficiaryStoredAsIs == [][BeneficiaryAdopted]_vars

C3_Witness ==
  \E k \in Keys :
    /\ PassportAt(extraction_store, k) # None
    /\ PassportAt(extraction_store, k)[1].extraction_method = Some("G28_BENEFICIARY")
    /\ PassportAt(extraction_store, k)[1].confidence_score = Some(500)
    /\ PassportAt(extraction_store, k)[1].last_name = Some("Silva")
    /\ PassportAt(extraction_store, k)[1].first_name = Some("Maria")
    /\ AttorneyAt(extraction_store, k) # None

\* a G-28 upload leaves every field of an existing passport record other
\* than the three names as it was
NonNameFieldsKept ==
  \A r \in Requests, k \in Keys :
    G28Step(r) /\ PassportAt(extraction_store, k) # None =>
      /\ PassportAt(extraction_store', k) # None
      /\ \A f \in DOMAIN PassportData \ NameFields :
           PassportAt(extraction_store', k)[1][f] = PassportAt(extraction_store, k)[1][f]

\* C4: the beneficiary merge leaves every field of the passport record other
\* than last, first and middle name unchanged, the method and the confidence
\* score included.
C4_MergeTouchesNamesOnly == [][NonNameFieldsKept]_vars

\* a FAILED / 0.0 passport record whose names a G-28 upload has filled
C4_Witness ==
  \E k \in Keys :
    /\ PassportAt(extraction_store, k) # None
    /\ PassportAt(extraction_store, k)[1].extraction_method = Some("FAILED")
    /\ PassportAt(extraction_store, k)[1].confidence_score = Some(0)
    /\ PassportAt(extraction_store, k)[1].last_name = Some("Silva")
    /\ PassportAt(extraction_store, k)[1].first_name = Some("Maria")

\* no request is between its await and its return
Quiescent == \A r \in Requests : requests[r].pc \in {"new", "read", "done"}

\* whenever no handler is in mid-flight, the store is the one the committed
\* requests give when run whole, one after the other, in the order in which
\* they returned
StoreIsSerial == Quiescent => extraction_store = serial

\* a step changes the case record of a key only if it is a step of a request
\* for that key
OwnKeyOnly ==
  \A k \in Keys :
    CaseAt(extraction_store', k) # CaseAt(extraction_store, k) =>
      \E r \in Requests :
        /\ StepOf(r)
        /\ requests'[r].session_id = Some(k)
        /\ requests'[r].kind \in {"passport", "g28", "delete"}

\* C5: uploads that overlap in time leave the store as some serial order of
\* them would (no write is lost, and the merge rule holds of the result, the
\* serial store being built with it), and an upload touches only the case
\* record of its own session key.
C5_UploadsSerialize == []StoreIsSerial /\ [][OwnKeyOnly]_vars

\* request 1 is still suspended in its read while request 2, which arrived
\* later for the same key, has returned with its record stored
C5_Witness ==
  /\ MaxRequests >= 2
  /\ requests[1].pc = "read" /\ requests[1].kind = "g28"
  /\ requests[2].pc = "done" /\ requests[2].kind = "passport"
  /\ requests[2].response[1].status = 200
  /\ requests[2].session_id = requests[1].session_id
  /\ PassportAt(extraction_store, requests[1].session_id[1]) # None

AttorneyDataFields == DOMAIN AttorneyData \ {"extraction_method", "confidence_score"}

\* a record with method FAILED, confidence 0.0 and every data field unset
IsFailedRecord(rec, fields) ==
  /\ rec.extraction_method = Some("FAILED")
  /\ rec.confidence_score = Some(0)
  /\ \A f \in fields : rec[f] = None

\* no strategy gives an acceptable result for the uploaded document
Exhausted(r) ==
  /\ requests[r].content # None
  /\ IF requests[r].kind = "passport"
       THEN LET doc == requests[r].content[1]
            IN  ~LlmAccepted(doc) /\ ~MrzAccepted(doc) /\ ~OcrAccepted(doc)
     ELSE LET doc == requests[r].content[1]
          IN  ~PdfAccepted(requests[r].ext, doc) /\ ~OcrDerived(doc)

\* the orchestrator's result for such a document, when it has just returned,
\* is the FAILED record
FailedReturned ==
  \A r \in Requests :
    requests[r].pc = "ensure" /\ Exhausted(r) =>
      IF requests[r].kind = "passport"
        THEN IsFailedRecord(requests[r].passport_data[1], PassportDataFields)
      ELSE /\ IsFailedRecord(requests[r].attorney_data[1], AttorneyDataFields)
           /\ requests[r].beneficiary_data = None

\* and the upload ends with a success response and that record in the store
FailedStored ==
  \A r \in Requests :
    StepOf(r) /\ requests'[r].pc = "done" /\ Exhausted(r) =>
      /\ Succeeds(r)
      /\ IF requests[r].kind = "passport"
           THEN PassportAt(extraction_store', requests[r].session_id[1]) = requests[r].passport_data
         ELSE AttorneyAt(extraction_store', requests[r].session_id[1]) = requests[r].attorney_data

PassportRecords ==
  { PassportAt(extraction_store, k)[1] : k \in {j \in Keys : PassportAt(extraction_store, j) # None} }
    \cup { requests[r].passport_data[1] : r \in {q \in Requests : requests[q].passport_data # None} }
    \cup { requests[r].beneficiary_data[1] : r \in {q \in Requests : requests[q].beneficiary_data # None} }

Provenance(rec) == <<rec.extraction_method, rec.confidence_score>>

\* C7 as stated: every passport record carries one of the pairs
\* (LLM_VISION, 0.95), (MRZ, 0.95), (OCR_PATTERN, 0.7), (G28_BENEFICIARY, 0.5),
\* (FAILED, 0.0).
C7_PairsWithSpecLabels ==
  \A rec \in PassportRecords :
    Provenance(rec) \in { <<Some("LLM_VISION"), Some(950)>>, <<Some("MRZ"), Some(950)>>,
                          <<Some("OCR_PATTERN"), Some(700)>>,
                          <<Some("G28_BENEFICIARY"), Some(500)>>,
                          <<Some("FAILED"), Some(0)>> }

\* C7: every passport record returned by the orchestrator or held in the
\* store carries one of the pairs (LLM_OPENAI, 0.95), (MRZ, 0.95),
\* (OCR+NLP, 0.7), (G28_BENEFICIARY, 0.5), (FAILED, 0.0).
C7_ProvenancePairs ==
  \A rec \in PassportRecords :
    Provenance(rec) \in { <<Some("LLM_OPENAI"), Some(950)>>, <<Some("MRZ"), Some(950)>>,
                          <<Some("OCR+NLP"), Some(700)>>,
                          <<Some("G28_BENEFICIARY"), Some(500)>>,
                          <<Some("FAILED"), Some(0)>> }

\* the LLM is unavailable, no MRZ is found, and an OCR text of length 80
\* yields a last name: the record is stamped OCR+NLP / 0.7
C7_Witness ==
  \E r \in Requests :
    /\ requests[r].kind = "passport" /\ requests[r].content # None
    /\ ~is_llm_available(requests[r].content[1].llm)
    /\ MrzResult(requests[r].content[1]) = None
    /\ Len(requests[r].content[1].pages) = 1
    /\ requests[r].content[1].pages[1].ocr.length = 80
    /\ Truthy(requests[r].passport_data[1].last_name)
    /\ Provenance(requests[r].passport_data[1]) = <<Some("OCR+NLP"), Some(700)>>

\* a request arrives as an upload of a file whose extension is not accepted
RejectedArrival(r) ==
  /\ requests[r].pc = "new" /\ StepOf(r)
  /\ requests'[r].kind \in {"passport", "g28"}
  /\ requests'[r].ext \notin {".pdf", ".jpg", ".jpeg", ".png"}

\* such a request ends at once with a 400; no strategy has run for it and the
\* store is as it was
RejectedAtOnce ==
  \A r \in Requests :
    RejectedArrival(r) =>
      /\ requests'[r].pc = "done"
      /\ requests'[r].response[1].status = 400 /\ ~requests'[r].response[1].success
      /\ requests'[r].content = None
      /\ requests'[r].passport_data = None /\ requests'[r].attorney_data = None
      /\ requests'[r].beneficiary_data = None
      /\ extraction_store' = extraction_store

\* C11: an upload whose extension is not .pdf, .jpg, .jpeg or .png is
\* rejected with a bad-input error before any strategy runs and before the
\* store is touched, for the passport and for the G-28 upload; no case record
\* is created.
C11_BadExtensionRejected == [][RejectedAtOnce]_vars

\* a passport and a G-28 upload of a .docx, both answered 400, and no case
\* record
C11_Witness ==
  /\ \E r \in Requests :
       /\ requests[r].kind = "passport" /\ requests[r].ext = ".docx"
       /\ requests[r].pc = "done" /\ requests[r].response[1].status = 400
  /\ \E r \in Requests :
       /\ requests[r].kind = "g28" /\ requests[r].ext = ".docx"
       /\ requests[r].pc = "done" /\ requests[r].response[1].status = 400
  /\ DOMAIN extraction_store = {}

\* the values typed into the mobile phone and the email widgets of the form
MobileTyped(doc) == MappedValue(FormFields(doc.form.widgets), "Line7_MobileTelephoneNumber[0]")

EmailTyped(doc) == MappedValue(FormFields(doc.form.widgets), "Line6_EMail[0]")

\* the mobile phone widget of a readable form holds an email address
EmailInMobile(doc) ==
  /\ FormRecord(doc) # None
  /\ MobileTyped(doc) # None /\ ContainsAt(MobileTyped(doc)[1])

NoAtInMobile(rec) == ~(rec.mobile_phone # None /\ ContainsAt(rec.mobile_phone[1]))

\* C12: no representative record returned by the orchestrator has a mobile
\* phone containing "@"; form-field ingestion clears such a mobile phone and
\* moves its value to the email when the email is unset, and keeps the email
\* of the form when it is set.
C12_EmailMovedOutOfMobile ==
  G28Job =>
    /\ NoAtInMobile(job.out.attorney)
    /\ FormRecord(job.doc) # None => NoAtInMobile(FormRecord(job.doc)[1])
    /\ EmailInMobile(job.doc) =>
         /\ FormRecord(job.doc)[1].mobile_phone = None
         /\ FormRecord(job.doc)[1].email =
              IF EmailTyped(job.doc) = None THEN MobileTyped(job.doc) ELSE EmailTyped(job.doc)
         /\ PdfAccepted(job.suffix, job.doc) =>
              /\ job.out.attorney.email = FormRecord(job.doc)[1].email
              /\ job.out.attorney.mobile_phone = None

\* an accepted form with jane@example.com in the mobile phone widget and no
\* email: the returned record has it as the email
C12_Witness ==
  /\ G28Job /\ PdfAccepted(job.suffix, job.doc)
  /\ MobileTyped(job.doc) = Some("jane@example.com") /\ EmailTyped(job.doc) = None
  /\ job.out.attorney.email = Some("jane@example.com")
  /\ job.out.attorney.mobile_phone = None

\* every representative record held in the store or just returned to a
\* handler
AttorneyRecords ==
  { AttorneyAt(extraction_store, k)[1] : k \in {j \in Keys : AttorneyAt(extraction_store, j) # None} }
    \cup { requests[r].attorney_data[1] : r \in {q \in Requests : requests[q].attorney_data # None} }

ScoredIffStamped(rec) == (rec.confidence_score # None) <=> (rec.extraction_method # None)

\* C13: in every passport record and representative record returned by an
\* orchestrator or held in the session store, also after a merge, the
\* confidence score is set if and only if the extraction method is set.
C13_ScoreWithMethod ==
  \A rec \in PassportRecords \cup AttorneyRecords : ScoredIffStamped(rec)

\* a stored passport record whose names were filled by a merge, next to a
\* form-field representative record, both stamped and scored
C13_Witness ==
  \E k \in Keys :
    /\ PassportAt(extraction_store, k) # None /\ AttorneyAt(extraction_store, k) # None
    /\ PassportAt(extraction_store, k)[1].extraction_method \notin {None, Some("G28_BENEFICIARY")}
    /\ PassportAt(extraction_store, k)[1].first_name = Some("Maria")
    /\ PassportAt(extraction_store, k)[1].confidence_score # None
    /\ AttorneyAt(extraction_store, k)[1].extraction_method = Some("PDF_FORM_FIELDS")
    /\ AttorneyAt(extraction_store, k)[1].confidence_score # None

\* a collaborator fails on the document: the LLM service, the image loader,
\* the OCR engine or the PDF form reader
CollaboratorFails(kind, doc) ==
  \/ doc.load = "error"
  \/ ~doc.env.tesseract
  \/ kind = "passport" /\ doc.llm.outcome \in {"api_error", "import_error", "no_client", "bad_json"}
  \/ kind = "passport" /\ \E i \in DOMAIN doc.pages :
                            doc.pages[i].mrz_text = None \/ doc.pages[i].ocr.outcome = "raise"
  \/ kind = "g28" /\ doc.form.outcome = "error"
  \/ kind = "g28" /\ \E i \in DOMAIN doc.pages : doc.pages[i].text = None

IsUpload(r) == requests[r].kind \in {"passport", "g28"}

\* the structured record the orchestrator handed to upload r
StructuredRecord(req) ==
  IF req.kind = "passport"
    THEN req.passport_data # None /\ Provenance(req.passport_data[1]) \in
           { <<Some("LLM_OPENAI"), Some(950)>>, <<Some("MRZ"), Some(950)>>,
             <<Some("OCR+NLP"), Some(700)>>, <<Some("FAILED"), Some(0)>> }
  ELSE req.attorney_data # None /\ req.attorney_data[1].extraction_method \in
         { Some("PDF_FORM_FIELDS"), Some("OCR+NLP"), Some("FAILED") }

\* once the uploaded file is read and saved, the extraction always hands a
\* structured record to the handler: the only error of this step is the
\* failure to read or save the file itself
ExtractionAbsorbs ==
  \A r \in Requests :
    IsUpload(r) /\ requests[r].pc = "read" /\ StepOf(r) =>
      \/ /\ requests'[r].pc = "done"
         /\ requests'[r].response[1].status = 500
         /\ requests'[r].response[1].message = "OSError"
      \/ /\ requests'[r].pc = "ensure"
         /\ requests'[r].content # None
         /\ StructuredRecord(requests'[r])

\* and an upload that has its record ends with a success response
RecordIsAnswered ==
  \A r \in Requests :
    IsUpload(r) /\ requests[r].pc \notin {"new", "read", "done"} /\ StepOf(r)
      /\ requests'[r].pc = "done" => Succeeds(r)

HasCase(store, k) == k \in DOMAIN store

\* a case record appears only by a step of an upload for its key
AppearsByUpload ==
  \A k \in Keys :
    ~HasCase(extraction_store, k) /\ HasCase(extraction_store', k) =>
      \E r \in Requests :
        /\ IsUpload(r) /\ StepOf(r)
        /\ requests[r].session_id = Some(k)

\* an upload that has created or found its case record holds the event loop
\* until it answers, and it answers with success (RecordIsAnswered), so no
\* other request sees a case record of an upload that has not succeeded
MidFlightHoldsLoop ==
  \A r \in Requests :
    IsUpload(r) /\ requests[r].pc \notin {"new", "read", "done"} => running = Some(r)

\* a successful upload leaves a case record for its key
UploadLeavesCase ==
  \A r \in Requests :
    IsUpload(r) /\ Succeeds(r) => HasCase(extraction_store', requests[r].session_id[1])

\* a case record disappears only by a delete request for its key, and that
\* delete removes it
RemovedByDeleteOnly ==
  /\ \A k \in Keys :
       HasCase(extraction_store, k) /\ ~HasCase(extraction_store', k) =>
         \E r \in Requests :
           /\ StepOf(r) /\ requests'[r].kind = "delete"
           /\ requests'[r].session_id = Some(k)
  /\ \A r \in Requests :
       StepOf(r) /\ requests'[r].kind = "delete" /\ requests'[r].response[1].status = 200 =>
         /\ HasCase(extraction_store, requests'[r].session_id[1])
         /\ ~HasCase(extraction_store', requests'[r].session_id[1])

\* get, fill-form and delete on a key without a case record answer 404 and
\* create nothing
AbsentIsNotFound ==
  \A r \in Requests :
    /\ StepOf(r) /\ requests'[r].kind \in {"get", "fill", "delete"}
    /\ ~HasCase(extraction_store, requests'[r].session_id[1])
    => /\ requests'[r].response[1].status = 404
       /\ extraction_store' = extraction_store

KeyOf(r) == requests[r].session_id[1]

\* a passport upload never changes the representative record, changes the
\* passport record only in the step that answers, and that step leaves the
\* orchestrator's output as the whole passport record
PassportUploadReplaces ==
  \A r \in Requests :
    requests[r].kind = "passport" /\ requests[r].pc # "done" /\ StepOf(r) =>
      /\ AttorneyAt(extraction_store', KeyOf(r)) = AttorneyAt(extraction_store, KeyOf(r))
      /\ Succeeds(r) => PassportAt(extraction_store', KeyOf(r)) = requests[r].passport_data
      /\ ~Succeeds(r) => PassportAt(extraction_store', KeyOf(r)) = PassportAt(extraction_store, KeyOf(r))

\* the passport record the merge policy gives for a stored record and a
\* beneficiary
MergePolicy(passport, beneficiary_data) ==
  IF beneficiary_data = None THEN passport
  ELSE IF passport = None THEN beneficiary_data
  ELSE Some([f \in DOMAIN passport[1] |->
               IF f \in NameFields /\ passport[1][f] \in {None, Some("")}
                 THEN beneficiary_data[1][f]
               ELSE passport[1][f]])

\* a G-28 upload changes the representative record only to the
\* orchestrator's output, which is the stored one when it answers, and it
\* changes the passport record only to what the merge policy gives
G28UploadReplaces ==
  \A r \in Requests :
    G28Step(r) /\ requests[r].pc # "done" =>
      /\ AttorneyAt(extraction_store', KeyOf(r)) # AttorneyAt(extraction_store, KeyOf(r))
           => AttorneyAt(extraction_store', KeyOf(r)) = requests[r].attorney_data
      /\ Succeeds(r) => AttorneyAt(extraction_store', KeyOf(r)) = requests[r].attorney_data
      /\ PassportAt(extraction_store', KeyOf(r)) # PassportAt(extraction_store, KeyOf(r))
           => PassportAt(extraction_store', KeyOf(r)) =
                MergePolicy(PassportAt(extraction_store, KeyOf(r)), requests[r].beneficiary_data)
      /\ Succeeds(r) /\ requests[r].pc \in {"fill", "adopt"}
           => PassportAt(extraction_store', KeyOf(r)) =
                MergePolicy(PassportAt(extraction_store, KeyOf(r)), requests[r].beneficiary_data)

\* C16: a successful passport upload replaces the whole passport record of
\* the case by the orchestrator's output, whatever was there (names filled
\* from a G-28 beneficiary included, and also when the output is the empty
\* FAILED record), and leaves the representative record as it was; a
\* successful G-28 upload replaces the whole representative record and
\* changes the passport record only through the merge policy.
C16_WholesaleReplacement == [][PassportUploadReplaces /\ G28UploadReplaces]_vars

\* the G-28 upload of request 1 stored a beneficiary as the passport record;
\* the passport upload of request 2, answered after it, left the empty
\* FAILED record in its place and the representative record untouched
C16_Witness ==
  \E k \in Keys :
    /\ requests[1].kind = "g28" /\ requests[1].pc = "done"
    /\ requests[1].response[1] = Response(200, TRUE, <<"G-28 extracted", Some("PDF_FORM_FIELDS")>>, Some(k))
    /\ requests[2].kind = "passport" /\ requests[2].pc = "done"
    /\ requests[2].response[1] = Response(200, TRUE, <<"Passport extracted", Some("FAILED")>>, Some(k))
    /\ PassportAt(extraction_store, k) # None
    /\ IsFailedRecord(PassportAt(extraction_store, k)[1], PassportDataFields)
    /\ AttorneyAt(extraction_store, k) # None
    /\ AttorneyAt(extraction_store, k)[1].extraction_method = Some("PDF_FORM_FIELDS")
    /\ AttorneyAt(extraction_store, k)[1].last_name = Some("Smith")

\* a field of a record is present: set and not empty
Present(rec, f) == rec[f] # None /\ rec[f] # Some("")

\* 0.5 x (required present)/2 + 0.5 x (important present)/4, in thousandths
WeightedScore(rec) ==
  (500 * Cardinality({f \in {"last_name", "first_name"} : Present(rec, f)})) \div 2
    + (500 * Cardinality({f \in {"street_address", "city", "state", "email"} : Present(rec, f)})) \div 4

\* the score does not go down when a field that is not present becomes
\* present
NeverLowered(rec) ==
  \A f \in AttorneyDataFields :
    ~Present(rec, f) =>
      _calculate_confidence([rec EXCEPT ![f] = Some("Smith")]) >= _calculate_confidence(rec)

\* C17: the representative confidence score is 0.5 x (present of last_name,
\* first_name)/2 + 0.5 x (present of street_address, city, state, email)/4,
\* lies in [0.0, 1.0], is 0.5 for a record with the two names only, 0.0 for
\* a record with no field, and does not decrease when a further field
\* becomes present.
C17_ConfidenceScore ==
  G28Job =>
    LET rec == job.out.attorney
    IN  /\ rec.confidence_score = Some(WeightedScore(rec))
        /\ _calculate_confidence(rec) = WeightedScore(rec)
        /\ WeightedScore(rec) \in 0..1000
        /\ (\A f \in AttorneyDataFields : Present(rec, f) <=> f \in {"last_name", "first_name"})
             => rec.confidence_score = Some(500)
        /\ (\A f \in AttorneyDataFields : ~Present(rec, f)) => rec.confidence_score = Some(0)
        /\ NeverLowered(rec)

\* a form-field record with the two names and nothing else, scored 0.5 and
\* accepted
C17_Witness ==
  /\ G28Job
  /\ job.out.attorney.extraction_method = Some("PDF_FORM_FIELDS")
  /\ \A f \in AttorneyDataFields :
       Present(job.out.attorney, f) <=> f \in {"last_name", "first_name"}
  /\ job.out.attorney.confidence_score = Some(500)

\* C18: in every representative record the orchestrator produces, whichever
\* strategy produced it, the state is unset or a 2-letter state code.
C18_StateIsTwoLetterCode ==
  G28Job =>
    \/ job.out.attorney.state = None
    \/ Len(job.out.attorney.state[1]) = 2

\* the loaded pages of a document
Pages(doc) == _get_images(doc)

\* the MRZ locator finds a line pair in the OCR text of page i
Located(doc, i) ==
  /\ doc.env.tesseract
  /\ Pages(doc)[i].mrz_text # None
  /\ _find_mrz_lines(Pages(doc)[i].mrz_text[1]) # None

\* and the TD3 validator accepts the pair
Validated(doc, i) == Located(doc, i) /\ Pages(doc)[i].td3.outcome = "valid"

\* the record is the one read from the fields of page i
FromPage(rec, doc, i) == SameData(rec, MrzRecord(Pages(doc)[i].td3.fields, doc.now_year))

\* C19: when the TD3 validator rejects the located lines, the MRZ strategy
\* reports "not found" for that page and never builds a record from the
\* rejected lines: an MRZ record always comes whole from the fields of a page
\* whose lines the validator accepted.
C19_RejectedMrzGivesNothing ==
  PassportJob =>
    LET doc == job.doc
    IN  /\ (\A i \in DOMAIN Pages(doc) : ~Validated(doc, i)) =>
             /\ MrzResult(doc) = None
             /\ job.out.data.extraction_method # Some("MRZ")
        /\ MrzResult(doc) # None =>
             \E i \in DOMAIN Pages(doc) : Validated(doc, i) /\ FromPage(MrzResult(doc)[1], doc, i)
        /\ job.out.data.extraction_method = Some("MRZ") =>
             \E i \in DOMAIN Pages(doc) : Validated(doc, i) /\ FromPage(job.out.data, doc, i)

\* a page whose located lines the validator rejects although their fields
\* read as a passport: the MRZ strategy gives nothing and the record comes
\* from the OCR patterns
C19_Witness ==
  /\ PassportJob /\ ~LlmAccepted(job.doc)
  /\ Len(Pages(job.doc)) = 1 /\ Located(job.doc, 1)
  /\ Pages(job.doc)[1].td3.outcome = "invalid"
  /\ Pages(job.doc)[1].td3.fields.document_number = "X1234567<"
  /\ MrzResult(job.doc) = None
  /\ job.out.data.extraction_method = Some("OCR+NLP")

\* the record of the fields of page i with a sex outside M, F, X left unset
\* (a date that is not six digits is already unset in MrzRecord)
MappableOnly(doc, i) ==
  LET rec == MrzRecord(Pages(doc)[i].td3.fields, doc.now_year)
  IN  [rec EXCEPT !.sex = IF @ \in {Some("M"), Some("F"), Some("X")} THEN @ ELSE None]

\* the first page carries a checksum-valid MRZ with a passport number, and
\* the LLM gives nothing
FirstPageValid(doc) ==
  /\ ~LlmAccepted(doc) /\ doc.env.mrz_lib
  /\ Pages(doc) # <<>> /\ Validated(doc, 1)
  /\ StripFiller(Pages(doc)[1].td3.fields.document_number) # ""

\* C20: a checksum-valid MRZ with a field that cannot be mapped (a malformed
\* date, a sex outside M, F, X such as the filler) gives the MRZ record with
\* only that field unset.
C20_UnmappableFieldAloneUnset ==
  PassportJob /\ FirstPageValid(job.doc) =>
    /\ job.out.data.extraction_method = Some("MRZ")
    /\ SameData(job.out.data, MappableOnly(job.doc, 1))

DateJob == job.stage = "done" /\ job.kind = "date"

\* the token is six decimal digits
SixDigits(token) ==
  /\ Len(token) = 6
  /\ \A i \in 1..6 : token[i] \in {"0","1","2","3","4","5","6","7","8","9"}

\* the number a two-character slice of digits denotes
TwoDigits(token, i) ==
  CHOOSE n \in 0..99 : <<DigitChar(n \div 10), DigitChar(n % 10)>> = SubSeq(token, i, i + 1)

\* the year the pivot rule gives
PivotYear(yy, now_year) ==
  IF yy > (now_year % 100) + 10 THEN 1900 + yy ELSE 2000 + yy

\* C21: a six-digit YYMMDD token converts with pivot = current year mod 100:
\* the year is 1900 + yy when yy > pivot + 10 and 2000 + yy otherwise, the
\* boundary yy = pivot + 10 falling in the 2000s (in 2024: 30 gives 2030, 34
\* gives 2034, 35 gives 1935, 70 gives 1970); a token shorter than six
\* characters or holding a character that is not a digit gives an unset
\* field.
C21_DatePivot ==
  DateJob =>
    IF SixDigits(job.date_str)
      THEN LET yy == TwoDigits(job.date_str, 1)
           IN  /\ job.out = Some([y |-> PivotYear(yy, job.now_year),
                                  m |-> TwoDigits(job.date_str, 3),
                                  d |-> TwoDigits(job.date_str, 5)])
               /\ yy = (job.now_year % 100) + 10 => job.out[1].y = 2000 + yy
               /\ job.now_year = 2024 /\ yy = 30 => job.out[1].y = 2030
               /\ job.now_year = 2024 /\ yy = 34 => job.out[1].y = 2034
               /\ job.now_year = 2024 /\ yy = 35 => job.out[1].y = 1935
               /\ job.now_year = 2024 /\ yy = 70 => job.out[1].y = 1970
    ELSE job.out = None

\* in 2024 the token 340102, whose year is the pivot plus ten, gives 2034
C21_Witness ==
  /\ DateJob /\ job.now_year = 2024
  /\ job.date_str = <<"3","4","0","1","0","2">>
  /\ job.out = Some([y |-> 2034, m |-> 1, d |-> 2])

LocateJob == job.stage = "done" /\ job.kind = "locate"

\* a line with look-alike glyphs mapped to the filler and every character
\* outside A-Z, 0-9 and the filler (blanks among them) removed
StrippedLine(line) ==
  LET mapped == [i \in 1..Len(line) |->
                   IF line[i] \in {"laquo", "lsaquo"} THEN "<" ELSE line[i]]
      InAlphabet(c) == c \in MrzLetters \cup MrzDigits \cup {"<"}
  IN  SelectSeq(mapped, InAlphabet)

\* the same of the upper-cased line
StrippedUpper(line) == StrippedLine([i \in 1..Len(line) |-> UpperChar(line[i])])

\* a cleaned line padded with the filler or cut to 44 characters
Fit44(cleaned) == [i \in 1..44 |-> IF i <= Len(cleaned) THEN cleaned[i] ELSE "<"]

\* the first two of the cleaned lines whose length is in 42..46, each fitted
\* to 44 characters; None when there are fewer than two
FirstTwo(cleaned_lines) ==
  LET candidates == {i \in DOMAIN cleaned_lines :
                       Len(cleaned_lines[i]) >= 42 /\ Len(cleaned_lines[i]) <= 46}
      first  == CHOOSE i \in candidates : \A j \in candidates : i <= j
      second == CHOOSE i \in candidates \ {first} : \A j \in candidates \ {first} : i <= j
  IN  IF Cardinality(candidates) < 2 THEN None
      ELSE Some(<<Fit44(cleaned_lines[first]), Fit44(cleaned_lines[second])>>)

\* a located pair is two lines of 44 characters that the locator returns
\* unchanged when given them again
PairIsFixed ==
  job.out # None =>
    /\ Len(job.out[1][1]) = 44 /\ Len(job.out[1][2]) = 44
    /\ _find_mrz_lines(job.out[1]) = job.out
    /\ NormalizeLine(job.out[1][1]) = job.out[1][1]
    /\ NormalizeLine(job.out[1][2]) = job.out[1][2]

\* C22 as stated: the cleaned form of a line is the line with blanks
\* stripped, look-alike glyphs mapped to the filler and every character
\* outside A-Z, 0-9 and the filler removed; the locator returns the first
\* two lines whose cleaned form has 42 to 46 characters, fitted to 44, and
\* "not found" when there are fewer than two.
C22_LocatorOnStrippedLines ==
  LocateJob =>
    /\ job.out = FirstTwo([i \in DOMAIN job.text |-> StrippedLine(job.text[i])])
    /\ PairIsFixed

\* C22: a line is a candidate exactly when the cleaned form of the
\* upper-cased line has 42 to 46 characters; the locator returns the first
\* two candidates in document order, each padded with the filler or cut to
\* exactly 44 characters, and "not found" when there are fewer than two; a
\* line of 44 MRZ characters is returned unchanged.
C22_LocatorOnUpperCasedLines ==
  LocateJob =>
    /\ job.out = FirstTwo([i \in DOMAIN job.text |-> StrippedUpper(job.text[i])])
    /\ PairIsFixed

\* three candidates of 42, 46 and 44 characters after a line of 41: the
\* first two are returned, padded and cut
C22_Witness ==
  /\ LocateJob
  /\ job.text = << <<"A">> \o Rep("<", 40), <<"B">> \o Rep("<", 41),
                   TD3Line1 \o <<"<", "<">> >>
  /\ job.out = Some(<< <<"B">> \o Rep("<", 43), TD3Line1 >>)

\* the codes of the state reference table
StateCodes == {US_STATES[k] : k \in DOMAIN US_STATES}

\* C23: in a representative record produced by the pattern-based extractor
\* the country is "United States" only when the extracted state is a code of
\* the state reference table; another 2-letter token does not make the
\* country United States.
C23_CountryOnlyForUSState ==
  G28Job /\ job.out.attorney.extraction_method = Some("OCR+NLP")
         /\ job.out.attorney.country = Some("United States")
    => /\ job.out.attorney.state # None
       /\ job.out.attorney.state[1] \in StateCodes

\* this step ends upload r with an error response
EndsInError(r) ==
  /\ StepOf(r) /\ requests'[r].kind \in {"passport", "g28"}
  /\ requests'[r].pc = "done"
  /\ requests'[r].response[1].status \in {400, 500}

\* an upload answers with an error only at its arrival (the extension check)
\* or at the step that reads, saves and extracts the file, and that step
\* leaves the store as it is
ErrorsComeFirst ==
  \A r \in Requests :
    EndsInError(r) =>
      /\ requests[r].pc \in {"new", "read"}
      /\ extraction_store' = extraction_store

\* up to and including that step an upload does not touch the store, so an
\* upload that ends in an error has changed nothing
UntouchedUntilExtracted ==
  \A r \in Requests :
    /\ StepOf(r) /\ requests'[r].kind \in {"passport", "g28"}
    /\ requests[r].pc \in {"new", "read"}
    => extraction_store' = extraction_store

====
